---------------------------- MODULE Spec2Model ----------------------------
(***************************************************************************)
(* Aggregation and scoring pipeline of the bigram typing comfort study     *)
(* (src/analyze/process_data.py; the copy in                               *)
(* src/analyze_data/analyze_bigram_prolific_study_data.py has the same     *)
(* code for every function modelled here):                                 *)
(*                                                                         *)
(*   load_easy_choice_pairs -> process_data -> filter_users                *)
(*                -> score_user_choices_by_slider_values                   *)
(*                -> choose_bigram_winners                                 *)
(*                                                                         *)
(* Conventions of the model                                                *)
(*  - a Python string is the sequence of its code points ("th" is          *)
(*    <<116, 104>>), ordered as Python orders strings;                     *)
(*  - a float is an IEEE 754 double and the arithmetic rounds as the       *)
(*    hardware does (see Floats); <<0, 0>> is NaN;                         *)
(*  - a DataFrame is the sequence of its rows, a row is a record whose     *)
(*    fields are the columns the pipeline reads; the columns group_id and  *)
(*    text, which are only copied, are left out;                           *)
(*  - None/True/False of the object column is_consistent are the strings   *)
(*    "None", "True", "False".                                             *)
(***************************************************************************)
EXTENDS Integers, Sequences, FiniteSets, TLC

VARIABLES
    pc,                  \* position in the main block: which stage runs next
    data,                \* the combined raw observations (input DataFrame)
    easy_choice_pairs_file, \* the CSV file read by load_easy_choice_pairs
    easy_choice_pairs,   \* list of (good_choice, bad_choice) tuples
    processed_data,      \* dict returned by process_data
    filtered_users_data, \* dict returned by filter_users
    scored_bigram_data,  \* DataFrame returned by score_user_choices_by_slider_values
    bigram_winner_data,  \* DataFrame returned by choose_bigram_winners
    thresholds,          \* improbable_threshold and inconsistent_threshold of
                         \* the main block, once assigned
    first_run            \* the tables of a completed earlier run on the same
                         \* data object (used by SpecTwice only)

vars == <<pc, data, easy_choice_pairs_file, easy_choice_pairs, processed_data,
          filtered_users_data, scored_bigram_data, bigram_winner_data,
          thresholds, first_run>>

-----------------------------------------------------------------------------
(* Floats *)

\* A float is an IEEE 754 double.  NaN is <<0, 0>> and +infinity <<1, 0>>.
\* A finite double whose value is num / 2^k with |num| < 2^19 and k <= 10 is
\* the pair <<num, 2^k>> in lowest terms; every other finite double is
\* <<sign, hi, lo, e>>, of value sign * (hi * 2^28 + lo) * 2^e with the
\* 53-bit significand hi * 2^28 + lo in [2^52, 2^53).  The operations round
\* to nearest, ties to even, as the hardware does.  The sign of zero,
\* subnormal numbers and overflow are not modelled.
NaN == <<0, 0>>

isnan(x) == x = NaN

Float(n) == <<n, 1>>

AbsInt(n) == IF n < 0 THEN -n ELSE n

RECURSIVE GCD(_, _)
GCD(a, b) == IF b = 0 THEN a ELSE GCD(b, a % b)

\* the pair n/d divided by the common factor g
Reduced(n, d, g) == <<n \div g, d \div g>>

\* the pair n/d, d >= 1, in lowest terms
Lowest(n, d) == Reduced(n, d, GCD(AbsInt(n), d))

NarrowLimit == 524288     \* 2^19
NarrowScale == 1024       \* 2^10
Limb == 268435456         \* 2^28

IsNarrow(x) == Len(x) = 2

IsZero(x) == x = <<0, 1>>

\* -1, 0 or 1 as l is below, equal to or above r
Compare(l, r) == IF l < r THEN -1 ELSE IF l = r THEN 0 ELSE 1

RECURSIVE BitLen(_)
\* the number of binary digits of a >= 0
BitLen(a) ==
    IF a >= 16 THEN 4 + BitLen(a \div 16)
    ELSE IF a >= 8 THEN 4
    ELSE IF a >= 4 THEN 3
    ELSE IF a >= 2 THEN 2
    ELSE a

\* num / den, where num # 0 has b binary digits, with 56 binary digits
ExtendedNarrow(num, den, b) ==
    [s  |-> IF num < 0 THEN -1 ELSE 1,
     hi |-> AbsInt(num) * 2^(28 - b),
     lo |-> 0,
     e  |-> b - 55 - BitLen(den)]

\* a finite double other than zero with three more binary digits: the
\* integer hi * 2^28 + lo in [2^55, 2^56) and the exponent e of its last digit
Extended(x) ==
    IF IsNarrow(x) THEN ExtendedNarrow(x[1], x[2], BitLen(AbsInt(x[1])))
    ELSE [s  |-> x[1],
          hi |-> x[2] * 8 + x[3] \div 33554432,
          lo |-> (x[3] % 33554432) * 8,
          e  |-> x[4] - 3]

\* the pair when its numerator is small enough, else the other form
Narrowed(narrow, wide) ==
    IF AbsInt(narrow[1]) < NarrowLimit THEN narrow ELSE wide

\* Canonical, where the value is the integer hi * 2^28 + lo divided by 2^t
\* and by 2^10
CanonicalAt(sign, hi, lo, e, t) ==
    IF lo = 0 /\ t >= 24 /\ t <= 52 /\ (t <= 28 \/ hi % 2^(t - 28) = 0)
    THEN Narrowed(Lowest(sign * (IF t <= 28 THEN hi * 2^(28 - t)
                                 ELSE hi \div 2^(t - 28)),
                         NarrowScale),
                  <<sign, hi, lo, e>>)
    ELSE <<sign, hi, lo, e>>

\* the double sign * (hi * 2^28 + lo) * 2^e, hi * 2^28 + lo in [2^52, 2^53),
\* in the form of its value
Canonical(sign, hi, lo, e) == CanonicalAt(sign, hi, lo, e, -10 - e)

\* Rounded, after the three last digits are dropped and the rest, mhi * 2^28
\* + ulo, is rounded up or not: a carry out of ulo, and out of the 53 digits
RoundedUp(sign, mhi, ulo, e) ==
    IF mhi + ulo \div Limb = 33554432 THEN Canonical(sign, 16777216, 0, e + 4)
    ELSE Canonical(sign, mhi + ulo \div Limb, ulo % Limb, e + 3)

\* the double nearest to sign * (hi * 2^28 + lo) * 2^e, where
\* hi * 2^28 + lo in [2^55, 2^56) and an odd last digit stands for any
\* remainder below it: round to nearest, ties to even
Rounded(sign, hi, lo, e) ==
    RoundedUp(sign, hi \div 8,
              lo \div 8 + (hi % 8) * 33554432
                 + (IF lo % 8 > 4 \/ (lo % 8 = 4 /\ (lo \div 8) % 2 = 1)
                    THEN 1 ELSE 0),
              e)

\* lo, its last digit made odd when digits 1 were lost below it
Jam(lo, lost) == IF lost /\ lo % 2 = 0 THEN lo + 1 ELSE lo

\* hi * 2^28 + lo shifted right by d >= 0 digits, the last digit of the
\* result made odd when a digit 1 was shifted out
ShiftRightJam(hi, lo, d) ==
    [hi |-> IF d = 0 THEN hi ELSE IF d < 28 THEN hi \div 2^d ELSE 0,
     lo |-> Jam(IF d = 0 THEN lo
                ELSE IF d < 28 THEN (hi % 2^d) * 2^(28 - d) + lo \div 2^d
                ELSE IF d = 28 THEN hi
                ELSE IF d < 56 THEN hi \div 2^(d - 28)
                ELSE 0,
                IF d = 0 THEN FALSE
                ELSE IF d < 28 THEN lo % 2^d # 0
                ELSE IF d = 28 THEN lo # 0
                ELSE IF d < 56 THEN lo # 0 \/ hi % 2^(d - 28) # 0
                ELSE TRUE)]

\* the double nearest to sign * (hi * 2^28 + lo) * 2^e after a shift by sh
\* digits that brings hi * 2^28 + lo into [2^55, 2^56): to the right by one
\* digit when sh = -1, else to the left
Shifted(sign, hi, lo, e, sh) ==
    Rounded(sign,
            IF sh < 0 THEN hi \div 2
            ELSE IF sh < 28 THEN hi * 2^sh + lo \div 2^(28 - sh)
            ELSE lo * 2^(sh - 28),
            IF sh < 0 THEN Jam((hi % 2) * 134217728 + lo \div 2, lo % 2 = 1)
            ELSE IF sh < 28 THEN (lo % 2^(28 - sh)) * 2^sh
            ELSE 0,
            e - sh)

\* the double nearest to sign * (hi * 2^28 + lo) * 2^e, where
\* 0 < hi * 2^28 + lo < 2^57 and 0 <= lo < 2^28
Normalised(sign, hi, lo, e) ==
    Shifted(sign, hi, lo, e,
            IF hi >= Limb THEN -1
            ELSE IF hi = 0 THEN 56 - BitLen(lo)
            ELSE 28 - BitLen(hi))

\* the order of the magnitudes of two extended doubles: -1, 0 or 1
MagnitudeOrder(X, Y) ==
    IF X.e # Y.e THEN Compare(X.e, Y.e)
    ELSE IF X.hi # Y.hi THEN Compare(X.hi, Y.hi)
    ELSE Compare(X.lo, Y.lo)

\* A + k * S for the extended double A and the digits S of a smaller one at
\* the exponent of A, k = 1 or -1: the carry or borrow of lo goes to hi
AddShifted(A, S, k) ==
    Normalised(A.s,
               A.hi + k * S.hi + (A.lo + k * S.lo) \div Limb,
               (A.lo + k * S.lo) % Limb,
               A.e)

\* A + B for extended doubles with |A| >= |B|, A # -B
AddOrdered(A, B) ==
    AddShifted(A, ShiftRightJam(B.hi, B.lo, A.e - B.e), A.s * B.s)

\* X + Y for extended doubles whose magnitudes are in the given order
AddByOrder(X, Y, order) ==
    IF order = 0 /\ X.s # Y.s THEN Float(0)
    ELSE AddOrdered(IF order >= 0 THEN X ELSE Y, IF order >= 0 THEN Y ELSE X)

\* x + y for finite doubles other than zero; exact is the sum of two pairs
\* in lowest terms, NaN standing for no such sum
AddRounded(x, y, exact) ==
    IF exact # NaN /\ AbsInt(exact[1]) < NarrowLimit THEN exact
    ELSE AddByOrder(Extended(x), Extended(y),
                    MagnitudeOrder(Extended(x), Extended(y)))

abs(x) == IF isnan(x) THEN NaN
          ELSE IF IsNarrow(x) THEN <<AbsInt(x[1]), x[2]>>
          ELSE <<1, x[2], x[3], x[4]>>

neg(x) == IF isnan(x) THEN NaN
          ELSE IF IsNarrow(x) THEN <<-x[1], x[2]>>
          ELSE <<-x[1], x[2], x[3], x[4]>>

\* x + y
add(x, y) ==
    IF isnan(x) \/ isnan(y) THEN NaN
    ELSE IF IsZero(x) THEN y
    ELSE IF IsZero(y) THEN x
    ELSE AddRounded(x, y,
                    IF IsNarrow(x) /\ IsNarrow(y)
                    THEN Lowest(x[1] * y[2] + y[1] * x[2], x[2] * y[2])
                    ELSE NaN)

sub(x, y) == add(x, neg(y))

RECURSIVE TwoPart(_)
\* the number j of factors 2 of n >= 1
TwoPart(n) == IF n % 2 = 1 THEN 0 ELSE 1 + TwoPart(n \div 2)

RECURSIVE LongDivide(_, _, _)
\* long division by q < 2^14 of the number with the digits ds in base 2^14,
\* most significant first, after the remainder r < q: the digits of the
\* quotient, then the remainder
LongDivide(ds, q, r) ==
    IF ds = <<>> THEN <<r>>
    ELSE <<(r * 16384 + ds[1]) \div q>>
             \o LongDivide(Tail(ds), q, (r * 16384 + ds[1]) % q)

\* the double nearest to the quotient by q of a 53-digit significand at the
\* exponent e, from the four digits and the remainder D of their long
\* division: sh more binary digits of the quotient are taken from the
\* remainder, and any remainder left makes the last digit odd
Quotient(sign, e, q, D, sh) ==
    Normalised(sign,
               (D[1] * 16384 + D[2]) * 2^sh
                   + (D[3] * 16384 + D[4]) \div 2^(28 - sh),
               Jam(((D[3] * 16384 + D[4]) % 2^(28 - sh)) * 2^sh
                       + (D[5] * 2^sh) \div q,
                   (D[5] * 2^sh) % q # 0),
               e - sh)

\* X / q for an extended double X and an odd integer q < 2^14
DivideOdd(X, q) ==
    Quotient(X.s, X.e + 3, q,
             LongDivide(<<X.hi \div 131072,
                          (X.hi \div 8) % 16384,
                          (X.lo \div 8 + (X.hi % 8) * 33554432) \div 16384,
                          (X.lo \div 8) % 16384>>, q, 0),
             BitLen(q) + 3)

\* x / n for a finite double x other than zero and n = q * 2^j, q odd
DivideBy(x, n, j) ==
    IF IsNarrow(x) /\ n = 2^j /\ x[2] * n <= NarrowScale
    THEN Lowest(x[1], x[2] * n)
    ELSE DivideOdd([Extended(x) EXCEPT !.e = @ - j], n \div 2^j)

\* x / n for an integer n >= 1
div(x, n) ==
    IF isnan(x) THEN NaN
    ELSE IF IsZero(x) \/ n = 1 THEN x
    ELSE DivideBy(x, n, TwoPart(n))

\* the double nearest to n / d, for integers n and d >= 1
Ratio(n, d) == div(Float(n), d)

\* the sign of a finite double: -1, 0 or 1
Sign(x) == IF IsNarrow(x) THEN Compare(x[1], 0) ELSE x[1]

\* the order of two finite doubles of the signs sx and sy, not both pairs
OrderBySign(x, y, sx, sy) ==
    IF sx # sy THEN Compare(sx, sy)
    ELSE sx * MagnitudeOrder(Extended(x), Extended(y))

\* the order of two finite doubles: -1, 0 or 1
Order(x, y) ==
    IF IsNarrow(x) /\ IsNarrow(y) THEN Compare(x[1] * y[2], y[1] * x[2])
    ELSE OrderBySign(x, y, Sign(x), Sign(y))

\* comparisons: every comparison with NaN is false
lt(x, y) == ~isnan(x) /\ ~isnan(y) /\ Order(x, y) < 0

ge(x, y) == ~isnan(x) /\ ~isnan(y) /\ Order(x, y) >= 0

-----------------------------------------------------------------------------
(* Sequences *)

RECURSIVE SumSeq(_)
\* Python sum(...): 0 + s[1] + s[2] + ...
SumSeq(s) == IF s = <<>> THEN Float(0)
             ELSE add(SumSeq(SubSeq(s, 1, Len(s) - 1)), s[Len(s)])

MapAbs(s) == [i \in 1..Len(s) |-> abs(s[i])]

NotNaN(x) == ~isnan(x)

dropna(s) == SelectSeq(s, NotNaN)

RECURSIVE InsertSorted(_, _)
InsertSorted(x, s) ==
    IF s = <<>> THEN <<x>>
    ELSE IF lt(x, s[1]) THEN <<x>> \o s
    ELSE <<s[1]>> \o InsertSorted(x, Tail(s))

RECURSIVE SortFloats(_)
SortFloats(s) == IF s = <<>> THEN <<>>
                 ELSE InsertSorted(s[1], SortFloats(Tail(s)))

HasNaN(s) == \E i \in 1..Len(s) : isnan(s[i])

\* numpy.median of a list: NaN for an empty list or a list holding a NaN,
\* else the middle element, or the mean of the two middle elements
np_median(s) ==
    IF s = <<>> \/ HasNaN(s) THEN NaN
    ELSE LET t == SortFloats(s)
             n == Len(t)
         IN  IF n % 2 = 1 THEN t[(n + 1) \div 2]
             ELSE div(add(t[n \div 2], t[(n \div 2) + 1]), 2)

\* variant: the median of the signed deviations
median_of_deviations(s) ==
    IF s = <<>> \/ HasNaN(s) THEN NaN
    ELSE LET med == np_median(s)
         IN  np_median([i \in 1..Len(s) |-> sub(s[i], med)])

\* scipy.stats.median_abs_deviation(x), defaults scale=1.0,
\* center=np.median, nan_policy='propagate'
median_abs_deviation(s) ==
    IF s = <<>> \/ HasNaN(s) THEN NaN
    ELSE LET med == np_median(s)
         IN  np_median([i \in 1..Len(s) |-> abs(sub(s[i], med))])

\* pandas Series.median(skipna=True)
series_median(s) == np_median(dropna(s))

\* pandas Series.sum(skipna=True)
series_sum(s) == SumSeq(dropna(s))

-----------------------------------------------------------------------------
(* Strings and tuples of strings, in Python's order *)

RECURSIVE StrLess(_, _)
StrLess(s, t) ==
    IF t = <<>> THEN FALSE
    ELSE IF s = <<>> THEN TRUE
    ELSE IF s[1] # t[1] THEN s[1] < t[1]
    ELSE StrLess(Tail(s), Tail(t))

\* variant: the pair in presentation order
unsorted_pair(x, y) == <<x, y>>

\* tuple(sorted([x, y]))
sorted_pair(x, y) == IF StrLess(y, x) THEN <<y, x>> ELSE <<x, y>>

\* order of 2-tuples of strings
PairLess(p, q) == StrLess(p[1], q[1]) \/ (p[1] = q[1] /\ StrLess(p[2], q[2]))

-----------------------------------------------------------------------------
(* DataFrame helpers *)

Column(df, c) == [i \in 1..Len(df) |-> df[i][c]]

\* set(series) / series.unique() as a set
Values(df, c) == {df[i][c] : i \in 1..Len(df)}

PyBool(b) == IF b THEN "True" ELSE "False"

\* variant: the group keys are taken in descending order
UserPairLess_descending(k, l) ==
    StrLess(l[1], k[1]) \/ (k[1] = l[1] /\ PairLess(l[2], k[2]))

\* order of the group keys (user_id, pair) and of the sort key
\* (user_id, trialId, bigram_pair)
UserPairLess(k, l) ==
    StrLess(k[1], l[1]) \/ (k[1] = l[1] /\ PairLess(k[2], l[2]))

SortKeyLess(r, q) ==
    \/ StrLess(r.user_id, q.user_id)
    \/ /\ r.user_id = q.user_id
       /\ \/ StrLess(r.trialId, q.trialId)
          \/ r.trialId = q.trialId /\ PairLess(r.bigram_pair, q.bigram_pair)

RECURSIVE SortUserPairKeys(_)
\* the keys of a groupby(['user_id', pair column]) in the order it yields them
SortUserPairKeys(S) ==
    IF S = {} THEN <<>>
    ELSE LET m == CHOOSE k \in S : \A l \in S \ {k} : UserPairLess(k, l)
         IN  <<m>> \o SortUserPairKeys(S \ {m})

RECURSIVE SortPairKeys(_)
\* the keys of a groupby(['bigram_pair']) in the order it yields them
SortPairKeys(S) ==
    IF S = {} THEN <<>>
    ELSE LET m == CHOOSE k \in S : \A l \in S \ {k} : PairLess(k, l)
         IN  <<m>> \o SortPairKeys(S \ {m})

RECURSIVE InsertRow(_, _)
InsertRow(r, s) ==
    IF s = <<>> THEN <<r>>
    ELSE IF SortKeyLess(s[1], r) THEN <<s[1]>> \o InsertRow(r, Tail(s))
    ELSE <<r>> \o s

RECURSIVE sort_values(_)
\* DataFrame.sort_values(by=['user_id', 'trialId', 'bigram_pair']): stable
sort_values(df) == IF df = <<>> THEN <<>>
                   ELSE InsertRow(df[1], sort_values(Tail(df)))

RECURSIVE Concat(_)
\* pd.concat of a list of frames
Concat(frames) == IF frames = <<>> THEN <<>>
                  ELSE frames[1] \o Concat(Tail(frames))

RECURSIVE UniqueInOrder(_)
\* Series.unique(): the distinct values in order of first appearance
UniqueInOrder(s) ==
    IF s = <<>> THEN <<>>
    ELSE LET u == UniqueInOrder(SubSeq(s, 1, Len(s) - 1))
             x == s[Len(s)]
         IN  IF \E i \in 1..Len(u) : u[i] = x THEN u ELSE Append(u, x)

\* value_counts()[u], 0 after fillna(0) when u has no row
CountUser(df, u) == Cardinality({i \in 1..Len(df) : df[i].user_id = u})

-----------------------------------------------------------------------------
(* load_easy_choice_pairs *)

\* A CSV file is [exists, columns, rows]: whether the path can be read, the
\* names of its header and its rows as records over the header.

\* [returned, value]: whether the call returns to its caller, and the list
\* it returns.  FileNotFoundError and the ValueError raised for a header
\* without the two columns are both caught inside the function.
load_easy_choice_pairs(file) ==
    IF ~file.exists THEN [returned |-> TRUE, value |-> <<>>]
    ELSE IF "good_choice" \notin file.columns \/ "bad_choice" \notin file.columns
         THEN [returned |-> TRUE, value |-> <<>>]
         ELSE [returned |-> TRUE,
               value |-> [i \in 1..Len(file.rows) |->
                            <<file.rows[i].good_choice, file.rows[i].bad_choice>>]]

-----------------------------------------------------------------------------
(* process_data *)

\* variant: a reference pair is a key in both orders
probable_pairs_either_order(ecp) ==
    {<<ecp[i][1], ecp[i][2]>> : i \in 1..Len(ecp)}
        \cup {<<ecp[i][2], ecp[i][1]>> : i \in 1..Len(ecp)}

probable_pairs(ecp) == {<<ecp[i][1], ecp[i][2]>> : i \in 1..Len(ecp)}

\* variant: the keys are not reversed
improbable_pairs_unreversed(ecp) ==
    {<<ecp[i][1], ecp[i][2]>> : i \in 1..Len(ecp)}

improbable_pairs(ecp) == {<<ecp[i][2], ecp[i][1]>> : i \in 1..Len(ecp)}

\* variant: the assignment to the input frame also rescales its slider column
with_std_bigram_pair_rescaling(df) ==
    [i \in 1..Len(df) |->
        [df[i] EXCEPT !.std_bigram_pair =
                          sorted_pair(df[i].chosenBigram, df[i].unchosenBigram),
                      !.sliderValue = div(df[i].sliderValue, 100)]]

\* data['std_bigram_pair'] = data.apply(... tuple(sorted([chosen, unchosen])))
with_std_bigram_pair(df) ==
    [i \in 1..Len(df) |->
        [df[i] EXCEPT !.std_bigram_pair =
            sorted_pair(df[i].chosenBigram, df[i].unchosenBigram)]]

\* variant: only the first run of adjacent rows with the key is the group
RawGroup_first_run(df, k) ==
    LET member(i) == df[i].user_id = k[1] /\ df[i].std_bigram_pair = k[2]
        first == CHOOSE i \in 1..Len(df) :
                     member(i) /\ \A j \in 1..(i - 1) : ~member(j)
        last == CHOOSE i \in first..Len(df) :
                    /\ \A j \in first..i : member(j)
                    /\ i = Len(df) \/ ~member(i + 1)
    IN  SubSeq(df, first, last)

\* rows of one (user_id, std_bigram_pair) group, in frame order
RawGroup(df, k) ==
    SelectSeq(df, LAMBDA r : r.user_id = k[1] /\ r.std_bigram_pair = k[2])

\* variant: no test of the group size
group_is_consistent_any_size(group) ==
    PyBool(Cardinality(Values(group, "chosenBigram")) = 1)

\* is_consistent of a group of raw rows
group_is_consistent(group) ==
    IF Len(group) > 1
    THEN PyBool(Cardinality(Values(group, "chosenBigram")) = 1)
    ELSE "None"

\* the result row built for one row of a group
result_row(row, k, group, ecp) ==
    LET bigram1 == k[2][1]
        bigram2 == k[2][2]
    IN  [user_id                 |-> k[1],
         trialId                 |-> row.trialId,
         bigram_pair             |-> k[2],
         bigram1                 |-> bigram1,
         bigram2                 |-> bigram2,
         bigram1_time            |-> IF row.chosenBigram = bigram1
                                     THEN row.chosenBigramTime
                                     ELSE row.unchosenBigramTime,
         bigram2_time            |-> IF row.chosenBigram = bigram2
                                     THEN row.chosenBigramTime
                                     ELSE row.unchosenBigramTime,
         chosen_bigram           |-> row.chosenBigram,
         unchosen_bigram         |-> row.unchosenBigram,
         chosen_bigram_time      |-> row.chosenBigramTime,
         unchosen_bigram_time    |-> row.unchosenBigramTime,
         chosen_bigram_correct   |-> row.chosenBigramCorrect,
         unchosen_bigram_correct |-> row.unchosenBigramCorrect,
         sliderValue             |-> row.sliderValue,
         abs_sliderValue         |-> abs(row.sliderValue),
         is_consistent           |-> group_is_consistent(group),
         is_probable             |-> <<row.chosenBigram, row.unchosenBigram>>
                                         \in probable_pairs(ecp),
         is_improbable           |-> <<row.chosenBigram, row.unchosenBigram>>
                                         \in improbable_pairs(ecp),
         group_size              |-> Len(group)]

\* the loop over grouped_data, pd.concat(result_list), sort_values
make_bigram_data(df, ecp) ==
    LET keys == SortUserPairKeys({<<df[i].user_id, df[i].std_bigram_pair>> :
                                     i \in 1..Len(df)})
        frames == [j \in 1..Len(keys) |->
                     LET group == RawGroup(df, keys[j])
                     IN  [i \in 1..Len(group) |->
                            result_row(group[i], keys[j], group, ecp)]]
    IN  sort_values(Concat(frames))

\* variant: only the groups of more than two repeats are counted
repeated_rows_over_two(bigram_data) ==
    SelectSeq(bigram_data, LAMBDA r : r.group_size > 2)

\* bigram_data[bigram_data['group_size'] > 1]
repeated_rows(bigram_data) ==
    SelectSeq(bigram_data, LAMBDA r : r.group_size > 1)

\* variant: the user ids are taken without unique()
stats_users_per_row(bigram_data) == Column(bigram_data, "user_id")

\* bigram_data['user_id'].unique()
stats_users(bigram_data) == UniqueInOrder(Column(bigram_data, "user_id"))

\* user_stats: one row per user of bigram_data, counters filled with 0
make_user_stats(bigram_data, consistent, inconsistent, probable, improbable, ecp) ==
    LET users == stats_users(bigram_data)
        repeated == repeated_rows(bigram_data)
    IN  [j \in 1..Len(users) |->
            [user_id                   |-> users[j],
             total_choices             |-> CountUser(bigram_data, users[j]),
             consistent_choices        |-> CountUser(consistent, users[j]),
             inconsistent_choices      |-> CountUser(inconsistent, users[j]),
             probable_choices          |-> CountUser(probable, users[j]),
             improbable_choices        |-> CountUser(improbable, users[j]),
             total_consistency_choices |-> CountUser(repeated, users[j]),
             num_easy_choice_pairs     |-> Len(ecp)]]

\* the dict process_data returns, for the frame with std_bigram_pair set
process_data(df, ecp) ==
    LET bigram_data == make_bigram_data(df, ecp)
        consistent_choices ==
            SelectSeq(bigram_data,
                      LAMBDA r : r.is_consistent = "True" /\ r.group_size > 1)
        inconsistent_choices ==
            SelectSeq(bigram_data,
                      LAMBDA r : r.is_consistent = "False" /\ r.group_size > 1)
        probable_choices == SelectSeq(bigram_data, LAMBDA r : r.is_probable)
        improbable_choices == SelectSeq(bigram_data, LAMBDA r : r.is_improbable)
    IN  [bigram_data          |-> bigram_data,
         consistent_choices   |-> consistent_choices,
         inconsistent_choices |-> inconsistent_choices,
         probable_choices     |-> probable_choices,
         improbable_choices   |-> improbable_choices,
         user_stats           |-> make_user_stats(bigram_data, consistent_choices,
                                     inconsistent_choices, probable_choices,
                                     improbable_choices, ecp)]

-----------------------------------------------------------------------------
(* filter_users *)

\* np.inf, the default of both thresholds
Inf == <<1, 0>>

\* variant: the count must stay below the threshold
within_threshold_strict(count, threshold) ==
    threshold = Inf \/ lt(Float(count), threshold)

\* count <= threshold for an integer count
within_threshold(count, threshold) ==
    threshold = Inf \/ ge(threshold, Float(count))

\* variant: the two thresholds are exchanged
valid_users_swapped(user_stats, improbable_threshold, inconsistent_threshold) ==
    {user_stats[i].user_id : i \in
        {j \in 1..Len(user_stats) :
            /\ within_threshold(user_stats[j].improbable_choices,
                                inconsistent_threshold)
            /\ within_threshold(user_stats[j].inconsistent_choices,
                                improbable_threshold)}}

valid_users(user_stats, improbable_threshold, inconsistent_threshold) ==
    {user_stats[i].user_id : i \in
        {j \in 1..Len(user_stats) :
            /\ within_threshold(user_stats[j].improbable_choices,
                                improbable_threshold)
            /\ within_threshold(user_stats[j].inconsistent_choices,
                                inconsistent_threshold)}}

\* df[df['user_id'].isin(valid_users)]
isin_users(df, users) == SelectSeq(df, LAMBDA r : r.user_id \in users)

filter_users(pd, improbable_threshold, inconsistent_threshold) ==
    LET valid == valid_users(pd.user_stats, improbable_threshold,
                             inconsistent_threshold)
    IN  [key \in DOMAIN pd |-> isin_users(pd[key], valid)]

-----------------------------------------------------------------------------
(* score_user_choices_by_slider_values *)

RECURSIVE Pick(_, _)
\* [x for i, x in enumerate(values) if keep(i)], keep given as the set of
\* the kept positions
Pick(values, idx) ==
    IF values = <<>> THEN <<>>
    ELSE LET n == Len(values)
             rest == Pick(SubSeq(values, 1, n - 1), idx)
         IN  IF n \in idx THEN Append(rest, values[n]) ELSE rest

RECURSIVE SumInts(_)
\* Series.sum() of an integer column
SumInts(s) == IF s = <<>> THEN 0 ELSE s[1] + SumInts(Tail(s))

\* sum(abs(x) for i, x in enumerate(slider_values)
\*     if chosen_bigrams.iloc[i] == bigram and not np.isnan(x))
abs_slider_sum(slider_values, chosen_bigrams, bigram) ==
    SumSeq(MapAbs(Pick(slider_values,
        {i \in 1..Len(slider_values) : chosen_bigrams[i] = bigram
                                       /\ ~isnan(slider_values[i])})))

\* variant: the median of the signed values
unanimous_strength_signed(slider_values) == np_median(dropna(slider_values))

\* np.median([abs(x) for x in slider_values if not np.isnan(x)])
unanimous_strength(slider_values) == np_median(MapAbs(dropna(slider_values)))

\* variant: the difference is not divided by the number of repeats
split_strength_undivided(sum1, sum2, group_size) == abs(sub(sum1, sum2))

\* variant: the difference keeps its sign
split_strength_signed(sum1, sum2, group_size) == div(sub(sum1, sum2), group_size)

\* abs(sum1 - sum2) / group_size
split_strength(sum1, sum2, group_size) == div(abs(sub(sum1, sum2)), group_size)

\* variant: bigram1 wins only with the strictly larger sum
split_winner_strict(sum1, sum2, bigram1, bigram2) ==
    IF lt(sum2, sum1) THEN bigram1 ELSE bigram2

\* bigram1 if sum1 >= sum2 else bigram2
split_winner(sum1, sum2, bigram1, bigram2) ==
    IF ge(sum1, sum2) THEN bigram1 ELSE bigram2

\* variant: the two branches are swapped
other_bigram_swapped(chosen_bigram_winner, bigram1, bigram2) ==
    IF chosen_bigram_winner = bigram1 THEN bigram1 ELSE bigram2

\* bigram2 if chosen_bigram_winner == bigram1 else bigram1
other_bigram(chosen_bigram_winner, bigram1, bigram2) ==
    IF chosen_bigram_winner = bigram1 THEN bigram2 ELSE bigram1

determine_score(group) ==
    LET bigram1 == group[1].bigram1
        bigram2 == group[1].bigram2
        chosen_bigrams == Column(group, "chosen_bigram")
        slider_values == Column(group, "sliderValue")
        group_size == Len(group)
        unanimous == Cardinality(Values(group, "chosen_bigram")) = 1
        sum1 == abs_slider_sum(slider_values, chosen_bigrams, bigram1)
        sum2 == abs_slider_sum(slider_values, chosen_bigrams, bigram2)
        median_abs_slider_value ==
            IF unanimous THEN unanimous_strength(slider_values)
            ELSE split_strength(sum1, sum2, group_size)
        chosen_bigram_winner ==
            IF unanimous THEN chosen_bigrams[1]
            ELSE split_winner(sum1, sum2, bigram1, bigram2)
        unchosen_bigram_winner ==
            other_bigram(chosen_bigram_winner, bigram1, bigram2)
    IN  [bigram1                       |-> bigram1,
         bigram2                       |-> bigram2,
         chosen_bigram_winner          |-> chosen_bigram_winner,
         unchosen_bigram_winner        |-> unchosen_bigram_winner,
         chosen_bigram_time_median     |->
             series_median(Column(group, "chosen_bigram_time")),
         unchosen_bigram_time_median   |->
             series_median(Column(group, "unchosen_bigram_time")),
         chosen_bigram_correct_total   |->
             series_sum(Column(group, "chosen_bigram_correct")),
         unchosen_bigram_correct_total |->
             series_sum(Column(group, "unchosen_bigram_correct")),
         score                         |-> div(median_abs_slider_value, 100),
         is_consistent                 |-> PyBool(unanimous),
         is_probable                   |-> group[1].is_probable,
         is_improbable                 |-> group[1].is_improbable,
         group_size                    |-> group_size]

\* rows of one (user_id, bigram_pair) group of bigram_data, in frame order
UserPairGroup(df, k) ==
    SelectSeq(df, LAMBDA r : r.user_id = k[1] /\ r.bigram_pair = k[2])

\* groupby(['user_id', 'bigram_pair']).apply(determine_score).reset_index()
score_user_choices_by_slider_values(fud) ==
    LET bigram_data == fud.bigram_data
        keys == SortUserPairKeys({<<bigram_data[i].user_id,
                                    bigram_data[i].bigram_pair>> :
                                     i \in 1..Len(bigram_data)})
    IN  [j \in 1..Len(keys) |->
            [user_id |-> keys[j][1], bigram_pair |-> keys[j][2]]
                @@ determine_score(UserPairGroup(bigram_data, keys[j]))]

-----------------------------------------------------------------------------
(* choose_bigram_winners *)

\* sum(abs(x) for i, x in enumerate(scores) if chosen_bigrams.iloc[i] == bigram)
abs_score_sum(scores, chosen_bigrams, bigram) ==
    SumSeq(MapAbs(Pick(scores,
        {i \in 1..Len(scores) : chosen_bigrams[i] = bigram})))

\* variant: the difference keeps its sign
split_median_score_signed(sum1, sum2, n) == div(sub(sum1, sum2), n)

\* abs(sum1 - sum2) / len(group)
split_median_score(sum1, sum2, n) == div(abs(sub(sum1, sum2)), n)

\* variant: the scores of bigram2 are not negated
signed_mad_list_unsigned(scores, chosen_bigrams, bigram1, bigram2) ==
    Pick([i \in 1..Len(scores) |-> abs(scores[i])],
         {i \in 1..Len(scores) : chosen_bigrams[i] \in {bigram1, bigram2}})

\* the list whose deviation is the split-case mad_score
signed_mad_list(scores, chosen_bigrams, bigram1, bigram2) ==
    Pick([i \in 1..Len(scores) |-> IF chosen_bigrams[i] = bigram1
                                   THEN abs(scores[i])
                                   ELSE neg(abs(scores[i]))],
         {i \in 1..Len(scores) : chosen_bigrams[i] \in {bigram1, bigram2}})

\* bigram1_wins of the split case: sum1 >= sum2
split_bigram1_wins(sum1, sum2) == ge(sum1, sum2)

\* variant: the rows of every user are taken, whatever their winner
winner_rows_all(chosen_bigrams, bigram) == 1..Len(chosen_bigrams)

\* the positions i with chosen_bigrams.iloc[i] == bigram
winner_rows(chosen_bigrams, bigram) ==
    {i \in 1..Len(chosen_bigrams) : chosen_bigrams[i] = bigram}

\* variant: one consistent user is enough
any_consistent(flags) == PyBool(\E i \in 1..Len(flags) : flags[i] = "True")

\* group['is_consistent'].all()
all_consistent(flags) == PyBool(\A i \in 1..Len(flags) : flags[i] = "True")

determine_winner(group) ==
    LET bigram1 == group[1].bigram1
        bigram2 == group[1].bigram2
        scores == Column(group, "score")
        chosen_bigrams == Column(group, "chosen_bigram_winner")
        n == Len(group)
        idx1 == winner_rows(chosen_bigrams, bigram1)
        idx2 == winner_rows(chosen_bigrams, bigram2)
        chosen_bigram_time_median1 ==
            np_median(Pick(Column(group, "chosen_bigram_time_median"), idx1))
        chosen_bigram_time_median2 ==
            np_median(Pick(Column(group, "chosen_bigram_time_median"), idx2))
        unchosen_bigram_time_median1 ==
            np_median(Pick(Column(group, "unchosen_bigram_time_median"), idx1))
        unchosen_bigram_time_median2 ==
            np_median(Pick(Column(group, "unchosen_bigram_time_median"), idx2))
        chosen_bigram_correct_total1 ==
            SumSeq(Pick(Column(group, "chosen_bigram_correct_total"), idx1))
        chosen_bigram_correct_total2 ==
            SumSeq(Pick(Column(group, "chosen_bigram_correct_total"), idx2))
        unchosen_bigram_correct_total1 ==
            SumSeq(Pick(Column(group, "unchosen_bigram_correct_total"), idx1))
        unchosen_bigram_correct_total2 ==
            SumSeq(Pick(Column(group, "unchosen_bigram_correct_total"), idx2))
        unique_chosen_bigrams == UniqueInOrder(chosen_bigrams)
        unanimous == Len(unique_chosen_bigrams) = 1
        sum1 == abs_score_sum(scores, chosen_bigrams, bigram1)
        sum2 == abs_score_sum(scores, chosen_bigrams, bigram2)
        median_score == IF unanimous THEN np_median(MapAbs(scores))
                        ELSE split_median_score(sum1, sum2, n)
        mad_score ==
            IF unanimous THEN median_abs_deviation(MapAbs(scores))
            ELSE median_abs_deviation(
                     signed_mad_list(scores, chosen_bigrams, bigram1, bigram2))
        bigram1_wins == IF unanimous THEN unique_chosen_bigrams[1] = bigram1
                        ELSE split_bigram1_wins(sum1, sum2)
    IN  [winner_bigram                 |-> IF bigram1_wins THEN bigram1 ELSE bigram2,
         loser_bigram                  |-> IF bigram1_wins THEN bigram2 ELSE bigram1,
         median_score                  |-> median_score,
         mad_score                     |-> mad_score,
         chosen_bigram_time_median     |->
             IF bigram1_wins THEN chosen_bigram_time_median1
             ELSE chosen_bigram_time_median2,
         unchosen_bigram_time_median   |->
             IF bigram1_wins THEN unchosen_bigram_time_median1
             ELSE unchosen_bigram_time_median2,
         chosen_bigram_correct_total   |->
             IF bigram1_wins THEN chosen_bigram_correct_total1
             ELSE chosen_bigram_correct_total2,
         unchosen_bigram_correct_total |->
             IF bigram1_wins THEN unchosen_bigram_correct_total1
             ELSE unchosen_bigram_correct_total2,
         is_consistent                 |->
             all_consistent(Column(group, "is_consistent")),
         is_probable                   |-> group[1].is_probable,
         is_improbable                 |-> group[1].is_improbable,
         group_size                    |-> SumInts(Column(group, "group_size"))]

\* rows of one bigram_pair group of scored_bigram_data, in frame order
PairGroup(df, k) == SelectSeq(df, LAMBDA r : r.bigram_pair = k)

\* the columns of column_order: group_size is not among them
winner_columns ==
    {"bigram_pair", "winner_bigram", "loser_bigram", "median_score",
     "mad_score", "chosen_bigram_time_median", "unchosen_bigram_time_median",
     "chosen_bigram_correct_total", "unchosen_bigram_correct_total",
     "is_consistent", "is_probable", "is_improbable"}

\* groupby(['bigram_pair']).apply(determine_winner).reset_index()[column_order]
choose_bigram_winners(scored) ==
    LET keys == SortPairKeys({scored[i].bigram_pair : i \in 1..Len(scored)})
    IN  [j \in 1..Len(keys) |->
            LET row == [bigram_pair |-> keys[j]]
                          @@ determine_winner(PairGroup(scored, keys[j]))
            IN  [c \in winner_columns |-> row[c]]]

-----------------------------------------------------------------------------
(* Inputs *)

\* bounds of the model
MaxGroup == 3   \* repeats of one pair by one user
MaxUsers == 3   \* users judging one pair
MaxRows  == 3   \* observations of the mixed input

th == <<116, 104>>
he == <<104, 101>>
fr == <<102, 114>>
vr == <<118, 114>>

\* "u1", "u2", ... and "t1", "t2", ...
UserId(i) == <<117, 48 + i>>
TrialId(i) == <<116, 48 + i>>

SliderValues == {NaN, Float(-100), Float(-60), Float(-40), Float(30), Float(50)}

\* one raw observation; the typing times and correctness flags of a trial
RawRow(user, trial, chosen, unchosen, slider) ==
    [user_id              |-> user,
     trialId              |-> trial,
     chosenBigram         |-> chosen,
     unchosenBigram       |-> unchosen,
     chosenBigramTime     |-> Float(100),
     unchosenBigramTime   |-> Float(200),
     chosenBigramCorrect  |-> Float(1),
     unchosenBigramCorrect |-> Float(1),
     sliderValue          |-> slider,
     std_bigram_pair      |-> <<>>]

\* the two presentations of the pair th/he, the two of the pair fr/vr
Choices1 == {<<th, he>>, <<he, th>>}
Choices2 == Choices1 \cup {<<fr, vr>>, <<vr, fr>>}

\* one user repeating one pair: every choice and every slider value
GroupInputs ==
    UNION {{[i \in 1..n |-> RawRow(UserId(1), TrialId(i), f[i][1][1],
                                   f[i][1][2], f[i][2])] :
              f \in [1..n -> Choices1 \X SliderValues]} : n \in 1..MaxGroup}

\* several users judging one pair once each
PairSliders == {NaN, Float(20), Float(30), Float(-40), Float(50)}

PairInputs ==
    UNION {{[i \in 1..n |-> RawRow(UserId(i), TrialId(1), f[i][1][1],
                                   f[i][1][2], f[i][2])] :
              f \in [1..n -> Choices1 \X PairSliders]} : n \in 1..MaxUsers}

\* two users, two pairs, in any mix
MixedUsers == {UserId(1), UserId(2)}
MixedSliders == {Float(30)}

MixedInputs ==
    UNION {{[i \in 1..n |-> RawRow(f[i][1], TrialId(i), f[i][2][1],
                                   f[i][2][2], f[i][3])] :
              f \in [1..n -> MixedUsers \X Choices2 \X MixedSliders]} :
           n \in 1..MaxRows}

\* sums that are rounded: one user repeating one pair with slider values
\* that are not whole numbers (0.1 + 0.2 is not the double 0.3), and several
\* users judging one pair once each whose scores add up differently
\* (0.4 + 0.2 is not the double 0.6)
FractionSliders == {Ratio(1, 10), Ratio(1, 5), Ratio(3, 10)}

FractionInputs ==
    UNION {{[i \in 1..n |-> RawRow(UserId(1), TrialId(i), f[i][1][1],
                                   f[i][1][2], f[i][2])] :
              f \in [1..n -> Choices1 \X FractionSliders]} : n \in 1..MaxGroup}

RoundedSliders == {Float(20), Float(40), Float(60)}

RoundedInputs ==
    UNION {{[i \in 1..n |-> RawRow(UserId(i), TrialId(1), f[i][1][1],
                                   f[i][1][2], f[i][2])] :
              f \in [1..n -> Choices1 \X RoundedSliders]} : n \in 1..MaxUsers}

\* typing times and correctness of a trial: fast and correct, slow with a
\* mistyped chosen bigram, chosen bigram without a recorded time
TrialProfiles ==
    {[chosenBigramTime |-> Float(100), unchosenBigramTime |-> Float(200),
      chosenBigramCorrect |-> Float(1), unchosenBigramCorrect |-> Float(1)],
     [chosenBigramTime |-> Float(300), unchosenBigramTime |-> Float(400),
      chosenBigramCorrect |-> Float(0), unchosenBigramCorrect |-> Float(1)],
     [chosenBigramTime |-> NaN, unchosenBigramTime |-> Float(200),
      chosenBigramCorrect |-> Float(1), unchosenBigramCorrect |-> Float(0)]}

\* an observation with the times and correctness of a profile
TimedRow(user, trial, chosen, unchosen, slider, profile) ==
    [RawRow(user, trial, chosen, unchosen, slider) EXCEPT
        !.chosenBigramTime      = profile.chosenBigramTime,
        !.unchosenBigramTime    = profile.unchosenBigramTime,
        !.chosenBigramCorrect   = profile.chosenBigramCorrect,
        !.unchosenBigramCorrect = profile.unchosenBigramCorrect]

\* several users judging one pair once each, with differing trials
TimedInputs ==
    UNION {{[i \in 1..n |-> TimedRow(UserId(i), TrialId(1), f[i][1][1],
                                     f[i][1][2], Float(30), f[i][2])] :
              f \in [1..n -> Choices1 \X TrialProfiles]} : n \in 1..MaxUsers}

\* two users judging one pair, with slider values of either sign
SignedSliders == {Float(-60), Float(30)}

SignedInputs ==
    UNION {{[i \in 1..n |-> RawRow(f[i][1], TrialId(i), f[i][2][1],
                                   f[i][2][2], f[i][3])] :
              f \in [1..n -> MixedUsers \X Choices1 \X SignedSliders]} :
           n \in 1..MaxRows}

\* reference lists: none, one pair, one pair in both directions
EasyChoiceLists == {<<>>, <<<<fr, vr>>>>, <<<<fr, vr>>, <<vr, fr>>>>}

\* the CSV file with the two columns that holds a reference list
EasyChoiceFile(pairs) ==
    [exists  |-> TRUE,
     columns |-> {"good_choice", "bad_choice"},
     rows    |-> [i \in 1..Len(pairs) |->
                    [good_choice |-> pairs[i][1], bad_choice |-> pairs[i][2]]]]

EasyChoiceFiles == {EasyChoiceFile(pairs) : pairs \in EasyChoiceLists}

\* files that hold no reference list: other column names, one column
\* missing, no file at the path
MalformedFiles ==
    {[exists |-> TRUE, columns |-> {"good", "bad"},
      rows |-> <<[good |-> fr, bad |-> vr]>>],
     [exists |-> TRUE, columns |-> {"good_choice"},
      rows |-> <<[good_choice |-> fr]>>]}

MissingFile == [exists |-> FALSE, columns |-> {}, rows |-> <<>>]

\* the observations read together with a file that holds no list
ReferenceInputs == {d \in MixedInputs : Len(d) = 1}

Thresholds == {Float(0), Inf}

empty_dict ==
    [bigram_data |-> <<>>, consistent_choices |-> <<>>,
     inconsistent_choices |-> <<>>, probable_choices |-> <<>>,
     improbable_choices |-> <<>>, user_stats |-> <<>>]

\* thresholds before the main block assigns them
no_thresholds == [improbable_threshold |-> <<>>, inconsistent_threshold |-> <<>>]

\* first_run before any run has completed
no_run ==
    [completed |-> FALSE, processed_data |-> empty_dict,
     filtered_users_data |-> empty_dict, scored_bigram_data |-> <<>>,
     bigram_winner_data |-> <<>>]

-----------------------------------------------------------------------------
(* The main block *)

Init ==
    /\ pc = "load_easy_choice_pairs"
    /\ \/ data \in GroupInputs /\ easy_choice_pairs_file = EasyChoiceFile(<<>>)
       \/ data \in PairInputs /\ easy_choice_pairs_file = EasyChoiceFile(<<>>)
       \/ data \in FractionInputs \cup RoundedInputs
            /\ easy_choice_pairs_file = EasyChoiceFile(<<>>)
       \/ data \in MixedInputs /\ easy_choice_pairs_file \in EasyChoiceFiles
       \/ data \in ReferenceInputs
            /\ easy_choice_pairs_file \in MalformedFiles \cup {MissingFile}
    /\ easy_choice_pairs = <<>>
    /\ processed_data = empty_dict
    /\ filtered_users_data = empty_dict
    /\ scored_bigram_data = <<>>
    /\ bigram_winner_data = <<>>
    /\ thresholds = no_thresholds
    /\ first_run = no_run

\* easy_choice_pairs = load_easy_choice_pairs(easy_choice_pairs_file)
LoadEasyChoicePairs ==
    /\ pc = "load_easy_choice_pairs"
    /\ LET call == load_easy_choice_pairs(easy_choice_pairs_file)
       IN  IF call.returned
           THEN easy_choice_pairs' = call.value /\ pc' = "process_data"
           ELSE UNCHANGED easy_choice_pairs /\ pc' = "load_raised"
    /\ UNCHANGED <<data, easy_choice_pairs_file, processed_data,
                   filtered_users_data, scored_bigram_data, bigram_winner_data,
                   thresholds, first_run>>

\* processed_data = process_data(data, easy_choice_pairs, ...)
ProcessData ==
    /\ pc = "process_data"
    /\ data' = with_std_bigram_pair(data)
    /\ processed_data' = process_data(data', easy_choice_pairs)
    /\ pc' = "filter_users"
    /\ UNCHANGED <<easy_choice_pairs_file, easy_choice_pairs,
                   filtered_users_data, scored_bigram_data, bigram_winner_data,
                   thresholds, first_run>>

\* improbable_threshold = ...; inconsistent_threshold = ...
\* filtered_users_data = filter_users(processed_data, ...,
\*                                    improbable_threshold, inconsistent_threshold)
FilterUsers ==
    /\ pc = "filter_users"
    /\ thresholds' \in [improbable_threshold : Thresholds,
                        inconsistent_threshold : Thresholds]
    /\ filtered_users_data' = filter_users(processed_data,
                                           thresholds'.improbable_threshold,
                                           thresholds'.inconsistent_threshold)
    /\ pc' = "score_user_choices"
    /\ UNCHANGED <<data, easy_choice_pairs_file, easy_choice_pairs,
                   processed_data, scored_bigram_data, bigram_winner_data,
                   first_run>>

\* scored_data = score_user_choices_by_slider_values(filtered_users_data, ...)
ScoreUserChoices ==
    /\ pc = "score_user_choices"
    /\ filtered_users_data.bigram_data # <<>>
    /\ scored_bigram_data' =
           score_user_choices_by_slider_values(filtered_users_data)
    /\ pc' = "choose_bigram_winners"
    /\ UNCHANGED <<data, easy_choice_pairs_file, easy_choice_pairs,
                   processed_data, filtered_users_data, bigram_winner_data,
                   thresholds, first_run>>

\* with every user filtered out the frame has no group, the applied result
\* has none of the columns of column_order and selecting them raises KeyError
ScoreUserChoicesRaises ==
    /\ pc = "score_user_choices"
    /\ filtered_users_data.bigram_data = <<>>
    /\ pc' = "raised"
    /\ UNCHANGED <<data, easy_choice_pairs_file, easy_choice_pairs,
                   processed_data, filtered_users_data, scored_bigram_data,
                   bigram_winner_data, thresholds, first_run>>

\* bigram_winner_data = choose_bigram_winners(scored_data, ...)
ChooseBigramWinners ==
    /\ pc = "choose_bigram_winners"
    /\ bigram_winner_data' = choose_bigram_winners(scored_bigram_data)
    /\ pc' = "done"
    /\ UNCHANGED <<data, easy_choice_pairs_file, easy_choice_pairs,
                   processed_data, filtered_users_data, scored_bigram_data,
                   thresholds, first_run>>

Next ==
    \/ LoadEasyChoicePairs
    \/ ProcessData
    \/ FilterUsers
    \/ ScoreUserChoices
    \/ ScoreUserChoicesRaises
    \/ ChooseBigramWinners

Spec == Init /\ [][Next]_vars

\* The same run on observations that differ in their typing times and
\* correctness, or in the signs of their slider values.
InitVaried ==
    /\ pc = "load_easy_choice_pairs"
    /\ data \in TimedInputs \cup SignedInputs
    /\ easy_choice_pairs_file = EasyChoiceFile(<<>>)
    /\ easy_choice_pairs = <<>>
    /\ processed_data = empty_dict
    /\ filtered_users_data = empty_dict
    /\ scored_bigram_data = <<>>
    /\ bigram_winner_data = <<>>
    /\ thresholds = no_thresholds
    /\ first_run = no_run

SpecVaried == InitVaried /\ [][Next]_vars

\* The pipeline run a second time on the objects the first run left behind:
\* the same data frame, which process_data has given the column
\* std_bigram_pair, and the same reference pairs.  The tables of the first
\* run are kept in first_run for comparison.
RunAgain ==
    /\ pc = "done"
    /\ ~first_run.completed
    /\ first_run' = [completed           |-> TRUE,
                     processed_data      |-> processed_data,
                     filtered_users_data |-> filtered_users_data,
                     scored_bigram_data  |-> scored_bigram_data,
                     bigram_winner_data  |-> bigram_winner_data]
    /\ pc' = "process_data"
    /\ UNCHANGED <<data, easy_choice_pairs_file, easy_choice_pairs,
                   processed_data, filtered_users_data, scored_bigram_data,
                   bigram_winner_data, thresholds>>

NextTwice == Next \/ RunAgain

SpecTwice == Init /\ [][NextTwice]_vars

-----------------------------------------------------------------------------
(* Vocabulary of the properties *)

Processed == pc \notin {"load_easy_choice_pairs", "load_raised", "process_data"}
Scored == pc \in {"choose_bigram_winners", "done"}
Done == pc = "done"

\* the observations handed to the scoring stage
scoring_input == filtered_users_data.bigram_data

\* positions of the observations of the (user, pair) group of a UserScore row
GroupOf(r) ==
    {i \in 1..Len(scoring_input) :
        /\ scoring_input[i].user_id = r.user_id
        /\ scoring_input[i].bigram_pair = r.bigram_pair}

ChosenIn(G) == {scoring_input[i].chosen_bigram : i \in G}

\* positions of the group whose slider value is not missing
Present(G) == {i \in G : ~isnan(scoring_input[i].sliderValue)}

\* |slider_value| of an observation
Magnitude(i) == abs(scoring_input[i].sliderValue)

\* positions of the UserScore rows of the pair of a verdict
ScoresOf(w) ==
    {j \in 1..Len(scored_bigram_data) :
        scored_bigram_data[j].bigram_pair = w.bigram_pair}

WinnersIn(J) == {scored_bigram_data[j].chosen_bigram_winner : j \in J}

AllScoresPresent(J) == \A j \in J : ~isnan(scored_bigram_data[j].score)

AbsScore(j) == abs(scored_bigram_data[j].score)

RECURSIVE Total(_, _)
\* the sum of f over the positions S, added in the order of the positions
Total(f, S) ==
    IF S = {} THEN Float(0)
    ELSE LET i == CHOOSE x \in S : \A y \in S : y <= x
         IN  add(Total(f, S \ {i}), f[i])

\* the k-th smallest of the values f[i], i in S
Smallest(f, S, k) ==
    CHOOSE v \in {f[i] : i \in S} :
        /\ Cardinality({i \in S : lt(f[i], v)}) < k
        /\ Cardinality({i \in S : ~lt(v, f[i])}) >= k

\* the median of the values f[i], i in S, S not empty
Median(f, S) ==
    LET n == Cardinality(S)
    IN  IF n % 2 = 1 THEN Smallest(f, S, (n + 1) \div 2)
        ELSE div(add(Smallest(f, S, n \div 2), Smallest(f, S, (n \div 2) + 1)), 2)

\* the median absolute deviation of the values f[i], i in S, S not empty
MAD(f, S) ==
    LET m == Median(f, S)
    IN  Median([i \in S |-> abs(sub(f[i], m))], S)

InUnit(x) == ge(x, Float(0)) /\ ge(Float(1), x)

-----------------------------------------------------------------------------
(* Pairwise Score Resolver *)

\* C1: in a (user, pair) group whose rows all chose the same bigram, the
\* winner is that bigram, the loser is the other bigram of the pair and the
\* score is the median of |slider_value| over the non-missing values / 100.
C1_Unanimous ==
    Scored =>
        \A j \in 1..Len(scored_bigram_data) :
            LET r == scored_bigram_data[j]
                G == GroupOf(r)
            IN  Cardinality(ChosenIn(G)) = 1 =>
                    /\ r.chosen_bigram_winner \in ChosenIn(G)
                    /\ r.unchosen_bigram_winner # r.chosen_bigram_winner
                    /\ {r.chosen_bigram_winner, r.unchosen_bigram_winner}
                           = {r.bigram_pair[1], r.bigram_pair[2]}
                    /\ Present(G) # {} =>
                           r.score =
                               div(Median([i \in Present(G) |-> Magnitude(i)],
                                          Present(G)), 100)

\* "th" chosen twice over "he" with sliders -40 and -60: winner "th", 0.5
C1_Witness ==
    /\ Scored
    /\ \E j \in 1..Len(scored_bigram_data) :
          LET r == scored_bigram_data[j]
              G == GroupOf(r)
          IN  /\ Cardinality(G) = 2
              /\ ChosenIn(G) = {th}
              /\ {scoring_input[i].sliderValue : i \in G}
                     = {Float(-40), Float(-60)}
              /\ r.chosen_bigram_winner = th
              /\ r.unchosen_bigram_winner = he
              /\ r.score = <<1, 2>>

\* the sums of |slider_value| of the rows of G that chose bigram b
ChoiceSum(G, b) ==
    Total([i \in G |-> Magnitude(i)],
          {i \in Present(G) : scoring_input[i].chosen_bigram = b})

\* C2: in a group in which both bigrams were chosen, the winner is the bigram
\* with the larger sum of |slider_value| and the score is
\* |sum_a - sum_b| / group_size / 100, group_size the number of rows.
C2_Split ==
    Scored =>
        \A j \in 1..Len(scored_bigram_data) :
            LET r == scored_bigram_data[j]
                G == GroupOf(r)
                a == r.bigram_pair[1]
                b == r.bigram_pair[2]
                sum_a == ChoiceSum(G, a)
                sum_b == ChoiceSum(G, b)
            IN  ChosenIn(G) = {a, b} /\ a # b =>
                    /\ lt(sum_b, sum_a) => r.chosen_bigram_winner = a
                    /\ lt(sum_a, sum_b) => r.chosen_bigram_winner = b
                    /\ r.score =
                           div(div(abs(sub(sum_a, sum_b)), Cardinality(G)), 100)

\* "th" with slider 30 and "he" with slider 50: winner "he", score 0.1
C2_Witness ==
    /\ Scored
    /\ \E j \in 1..Len(scored_bigram_data) :
          LET r == scored_bigram_data[j]
              G == GroupOf(r)
          IN  /\ Cardinality(G) = 2
              /\ ChoiceSum(G, th) = Float(30)
              /\ ChoiceSum(G, he) = Float(50)
              /\ r.chosen_bigram_winner = he
              /\ r.score = Ratio(1, 10)

\* "he" with slider 0.3 and "th" with sliders 0.1 and 0.2: the sum of "th"
\* is the double above 0.3, so the winner is "th" and the score is not 0
C2_WitnessRounded ==
    /\ Scored
    /\ \E j \in 1..Len(scored_bigram_data) :
          LET r == scored_bigram_data[j]
              G == GroupOf(r)
          IN  /\ Cardinality(G) = 3
              /\ ChoiceSum(G, he) = Ratio(3, 10)
              /\ ChoiceSum(G, th) = add(Ratio(1, 10), Ratio(1, 5))
              /\ lt(ChoiceSum(G, he), ChoiceSum(G, th))
              /\ r.chosen_bigram_winner = th
              /\ r.score =
                     div(div(sub(add(Ratio(1, 10), Ratio(1, 5)), Ratio(3, 10)),
                             3), 100)
              /\ lt(Float(0), r.score)

\* the sum of |score| of the UserScore rows of J whose winner is bigram b
WinnerSum(J, b) ==
    Total([j \in J |-> AbsScore(j)],
          {j \in J : scored_bigram_data[j].chosen_bigram_winner = b})

\* a (user, pair) group that is split with equal sums
ScoreTie(r) ==
    LET G == GroupOf(r)
    IN  /\ ChosenIn(G) = {r.bigram_pair[1], r.bigram_pair[2]}
        /\ r.bigram_pair[1] # r.bigram_pair[2]
        /\ ChoiceSum(G, r.bigram_pair[1]) = ChoiceSum(G, r.bigram_pair[2])

\* a pair whose users are split with equal sums
WinnerTie(w) ==
    LET J == ScoresOf(w)
    IN  /\ WinnersIn(J) = {w.bigram_pair[1], w.bigram_pair[2]}
        /\ w.bigram_pair[1] # w.bigram_pair[2]
        /\ AllScoresPresent(J)
        /\ WinnerSum(J, w.bigram_pair[1]) = WinnerSum(J, w.bigram_pair[2])

\* C3: when the two sums of a split group are equal the winner is bigram_a,
\* the smaller bigram of the pair, and the loser is bigram_b, in the per-user
\* resolver and in the global resolver.
C3_TieBreak ==
    /\ Scored =>
          \A j \in 1..Len(scored_bigram_data) :
              LET r == scored_bigram_data[j]
              IN  ScoreTie(r) =>
                     /\ r.chosen_bigram_winner = r.bigram_pair[1]
                     /\ r.unchosen_bigram_winner = r.bigram_pair[2]
                     /\ StrLess(r.chosen_bigram_winner, r.unchosen_bigram_winner)
    /\ Done =>
          \A k \in 1..Len(bigram_winner_data) :
              LET w == bigram_winner_data[k]
              IN  WinnerTie(w) =>
                     /\ w.winner_bigram = w.bigram_pair[1]
                     /\ w.loser_bigram = w.bigram_pair[2]
                     /\ StrLess(w.winner_bigram, w.loser_bigram)

\* two users with opposite winners and the same score: "he" < "th" wins
C3_Witness ==
    /\ Done
    /\ \E k \in 1..Len(bigram_winner_data) :
          LET w == bigram_winner_data[k]
          IN  /\ WinnerTie(w)
              /\ WinnerSum(ScoresOf(w), he) = Ratio(3, 10)
              /\ w.winner_bigram = he
              /\ w.loser_bigram = th

\* one user choosing "th" and "he" with the same magnitude: "he" wins
C3_WitnessScore ==
    /\ Scored
    /\ \E j \in 1..Len(scored_bigram_data) :
          LET r == scored_bigram_data[j]
          IN  /\ ScoreTie(r)
              /\ ChoiceSum(GroupOf(r), th) = Float(30)
              /\ r.chosen_bigram_winner = he

\* C4 as stated: every UserScore row has 0 <= score <= 1 (the slider values
\* of the model are missing or within [-100, 100]).
C4_ScoreInUnitInterval ==
    Scored =>
        \A j \in 1..Len(scored_bigram_data) : InUnit(scored_bigram_data[j].score)

\* C4 amended: the score is missing exactly when the group is unanimous and
\* has no non-missing slider value, and 0 <= score <= 1 otherwise.
C4_ScoreMissingOrInUnitInterval ==
    Scored =>
        \A j \in 1..Len(scored_bigram_data) :
            LET r == scored_bigram_data[j]
                G == GroupOf(r)
            IN  IF Cardinality(ChosenIn(G)) = 1 /\ Present(G) = {}
                THEN isnan(r.score)
                ELSE InUnit(r.score)

\* a user whose only slider value is missing, with a missing score, next to
\* a user with the slider value 50 and the score 0.5
C4_Witness ==
    /\ Scored
    /\ \E j \in 1..Len(scored_bigram_data) :
          /\ isnan(scored_bigram_data[j].score)
          /\ Present(GroupOf(scored_bigram_data[j])) = {}
    /\ \E j \in 1..Len(scored_bigram_data) :
          /\ scored_bigram_data[j].score = <<1, 2>>
          /\ Present(GroupOf(scored_bigram_data[j])) # {}

-----------------------------------------------------------------------------
(* Global Winner Resolver *)

\* the verdicts of the unanimous pairs: winner, loser, median and median
\* absolute deviation of |score| over the rows
UnanimousVerdicts ==
    Done =>
        \A k \in 1..Len(bigram_winner_data) :
            LET w == bigram_winner_data[k]
                J == ScoresOf(w)
                f == [j \in J |-> AbsScore(j)]
            IN  Cardinality(WinnersIn(J)) = 1 =>
                    /\ w.winner_bigram \in WinnersIn(J)
                    /\ w.loser_bigram # w.winner_bigram
                    /\ {w.winner_bigram, w.loser_bigram}
                           = {w.bigram_pair[1], w.bigram_pair[2]}
                    /\ AllScoresPresent(J) =>
                           /\ w.median_score = Median(f, J)
                           /\ w.mad_score = MAD(f, J)

\* the verdicts of three unanimous rows with the scores 0.2, 0.3, 0.4 have
\* median_score 0.3 and the mad_score mad
ExampleVerdicts(mad) ==
    Done =>
        \A k \in 1..Len(bigram_winner_data) :
            LET w == bigram_winner_data[k]
                J == ScoresOf(w)
            IN  /\ Cardinality(J) = 3
                /\ Cardinality(WinnersIn(J)) = 1
                /\ {scored_bigram_data[j].score : j \in J}
                       = {Ratio(1, 5), Ratio(3, 10), Ratio(2, 5)}
                => /\ w.median_score = Ratio(3, 10)
                   /\ w.mad_score = mad

\* C5 as stated: when every UserScore row of a pair declares the same winner,
\* the verdict's winner is that bigram, the loser is the other bigram of the
\* pair, median_score is the median of |score| over the rows and mad_score
\* the median absolute deviation of the same values, and the scores
\* 0.2, 0.3, 0.4 give median_score 0.3 and mad_score 0.1.
C5_GlobalUnanimousAsStated ==
    /\ UnanimousVerdicts
    /\ ExampleVerdicts(Ratio(1, 10))

\* C5: when every UserScore row of a pair declares the same winner, the
\* verdict's winner is that bigram, the loser is the other bigram of the
\* pair, median_score is the median of |score| over the rows and mad_score
\* the median absolute deviation of the same values; the scores 0.2, 0.3, 0.4
\* give median_score 0.3 and mad_score 0.3 - 0.2 = 0.09999999999999998.
C5_GlobalUnanimous ==
    /\ UnanimousVerdicts
    /\ ExampleVerdicts(sub(Ratio(3, 10), Ratio(1, 5)))

\* three users with the winner "th" and the scores 0.2, 0.3, 0.4:
\* median_score 0.3 and mad_score 0.3 - 0.2, the double below 0.1
C5_Witness ==
    /\ Done
    /\ \E k \in 1..Len(bigram_winner_data) :
          LET w == bigram_winner_data[k]
              J == ScoresOf(w)
          IN  /\ Cardinality(J) = 3
              /\ WinnersIn(J) = {th}
              /\ {scored_bigram_data[j].score : j \in J}
                     = {Ratio(1, 5), Ratio(3, 10), Ratio(2, 5)}
              /\ w.winner_bigram = th
              /\ w.loser_bigram = he
              /\ w.median_score = Ratio(3, 10)
              /\ w.mad_score = sub(Ratio(3, 10), Ratio(1, 5))

\* C6: when the UserScore rows of a pair declare different winners, the
\* verdict's winner is the bigram with the larger sum of |score| (bigram_a on
\* a tie) and median_score = |sum_a - sum_b| / number of UserScore rows.
C6_GlobalSplit ==
    Done =>
        \A k \in 1..Len(bigram_winner_data) :
            LET w == bigram_winner_data[k]
                J == ScoresOf(w)
                a == w.bigram_pair[1]
                b == w.bigram_pair[2]
                sum_a == WinnerSum(J, a)
                sum_b == WinnerSum(J, b)
            IN  WinnersIn(J) = {a, b} /\ a # b /\ AllScoresPresent(J) =>
                    /\ w.winner_bigram = IF lt(sum_a, sum_b) THEN b ELSE a
                    /\ w.loser_bigram = IF lt(sum_a, sum_b) THEN a ELSE b
                    /\ w.median_score =
                           div(abs(sub(sum_a, sum_b)), Cardinality(J))

\* "he" wins one user with 0.6, "th" two users with 0.4 and 0.2: the sum of
\* "th" is the double above 0.6, so the winner is "th" and median_score is
\* (0.6000000000000001 - 0.6) / 3
C6_Witness ==
    /\ Done
    /\ \E k \in 1..Len(bigram_winner_data) :
          LET w == bigram_winner_data[k]
              J == ScoresOf(w)
          IN  /\ Cardinality(J) = 3
              /\ WinnerSum(J, he) = Ratio(3, 5)
              /\ WinnerSum(J, th) = add(Ratio(2, 5), Ratio(1, 5))
              /\ lt(WinnerSum(J, he), WinnerSum(J, th))
              /\ w.winner_bigram = th
              /\ w.loser_bigram = he
              /\ w.median_score =
                     div(sub(add(Ratio(2, 5), Ratio(1, 5)), Ratio(3, 5)), 3)
              /\ lt(Float(0), w.median_score)
              /\ w.mad_score = Ratio(1, 5)

\* C7: every (user, pair) group and every pair group yields exactly one
\* winner: winner and loser are the two bigrams of the pair, for every
\* combination of choices and of slider values or scores, missing ones too.
C7_ExactlyOneWinner ==
    /\ Scored =>
          \A j \in 1..Len(scored_bigram_data) :
              LET r == scored_bigram_data[j]
              IN  /\ r.chosen_bigram_winner \in {r.bigram_pair[1], r.bigram_pair[2]}
                  /\ r.unchosen_bigram_winner
                         \in {r.bigram_pair[1], r.bigram_pair[2]}
                  /\ r.chosen_bigram_winner # r.unchosen_bigram_winner
    /\ Done =>
          \A k \in 1..Len(bigram_winner_data) :
              LET w == bigram_winner_data[k]
              IN  /\ w.winner_bigram \in {w.bigram_pair[1], w.bigram_pair[2]}
                  /\ w.loser_bigram \in {w.bigram_pair[1], w.bigram_pair[2]}
                  /\ w.winner_bigram # w.loser_bigram

\* a pair whose users are split, one of them with a missing score
C7_Witness ==
    /\ Done
    /\ \E k \in 1..Len(bigram_winner_data) :
          LET w == bigram_winner_data[k]
              J == ScoresOf(w)
          IN  /\ Cardinality(WinnersIn(J)) = 2
              /\ ~AllScoresPresent(J)
              /\ w.winner_bigram = th
              /\ w.loser_bigram = he

-----------------------------------------------------------------------------
(* Pair Normalizer, Consistency Grouper, Trial Classifier *)

Bigrams(row) == {row.chosenBigram, row.unchosenBigram}

\* C8: the pair key does not depend on which bigram was chosen, its
\* components are the smaller and the larger of the two bigrams, and all
\* trials of the same two bigrams of a user fall in one group.
C8_OrderInvariant ==
    Processed =>
        /\ \A i \in 1..Len(data) :
              LET p == data[i].std_bigram_pair
              IN  /\ {p[1], p[2]} = Bigrams(data[i])
                  /\ StrLess(p[1], p[2])
        /\ \A i, j \in 1..Len(data) :
              Bigrams(data[i]) = Bigrams(data[j]) =>
                  data[i].std_bigram_pair = data[j].std_bigram_pair
        /\ \A m \in 1..Len(processed_data.bigram_data) :
              LET r == processed_data.bigram_data[m]
              IN  /\ r.bigram_pair = <<r.bigram1, r.bigram2>>
                  /\ {r.bigram1, r.bigram2} = {r.chosen_bigram, r.unchosen_bigram}
                  /\ StrLess(r.bigram1, r.bigram2)
                  /\ r.group_size =
                         Cardinality({i \in 1..Len(data) :
                             /\ data[i].user_id = r.user_id
                             /\ Bigrams(data[i])
                                    = {r.chosen_bigram, r.unchosen_bigram}})

\* a user who chose "th" over "he" in one trial and "he" over "th" in
\* another: both trials carry the key ("he", "th") and form one group
C8_Witness ==
    /\ Processed
    /\ \E m, n \in 1..Len(processed_data.bigram_data) :
          LET r == processed_data.bigram_data[m]
              q == processed_data.bigram_data[n]
          IN  /\ r.user_id = q.user_id
              /\ r.chosen_bigram = th /\ r.unchosen_bigram = he
              /\ q.chosen_bigram = he /\ q.unchosen_bigram = th
              /\ r.bigram_pair = <<he, th>>
              /\ q.bigram_pair = <<he, th>>
              /\ r.group_size = 2

Rows(df) == {df[i] : i \in 1..Len(df)}

\* the classified rows of the (user, pair) group of the classified row r
Peers(r) ==
    {q \in Rows(processed_data.bigram_data) :
        q.user_id = r.user_id /\ q.bigram_pair = r.bigram_pair}

\* C9: a row of a group of size 1 has is_consistent null and is in neither
\* the consistent nor the inconsistent subset; in a larger group
\* is_consistent is true exactly when all rows chose the same bigram.
C9_SingletonsUndefined ==
    Processed =>
        \A m \in 1..Len(processed_data.bigram_data) :
            LET r == processed_data.bigram_data[m]
                size == Cardinality({i \in 1..Len(data) :
                            /\ data[i].user_id = r.user_id
                            /\ data[i].std_bigram_pair = r.bigram_pair})
            IN  /\ size = 1 =>
                       /\ r.is_consistent = "None"
                       /\ r \notin Rows(processed_data.consistent_choices)
                       /\ r \notin Rows(processed_data.inconsistent_choices)
                /\ size > 1 =>
                       /\ r.is_consistent \in {"True", "False"}
                       /\ r.is_consistent = "True" <=>
                              \A q \in Peers(r) : q.chosen_bigram = r.chosen_bigram

\* a user with a pair seen once and another pair seen twice with both choices
C9_Witness ==
    /\ Processed
    /\ \E m, n \in 1..Len(processed_data.bigram_data) :
          LET r == processed_data.bigram_data[m]
              q == processed_data.bigram_data[n]
          IN  /\ r.user_id = q.user_id
              /\ r.group_size = 1 /\ r.is_consistent = "None"
              /\ q.group_size = 2 /\ q.is_consistent = "False"
              /\ q \in Rows(processed_data.inconsistent_choices)
              /\ r \notin Rows(processed_data.inconsistent_choices)

\* no pair of the reference list appears in both directions
NoPairInBothDirections ==
    \A i, j \in 1..Len(easy_choice_pairs) :
        easy_choice_pairs[i] # <<easy_choice_pairs[j][2], easy_choice_pairs[j][1]>>

\* C10: with a reference list in which no pair appears in both directions,
\* no classified observation is both probable and improbable.
C10_MutuallyExclusive ==
    Processed /\ NoPairInBothDirections =>
        \A m \in 1..Len(processed_data.bigram_data) :
            LET r == processed_data.bigram_data[m]
            IN  ~(r.is_probable /\ r.is_improbable)

\* the reference pair ("fr", "vr"), one trial choosing "fr" and one choosing
\* "vr": the first is probable only, the second improbable only
C10_Witness ==
    /\ Processed
    /\ easy_choice_pairs = <<<<fr, vr>>>>
    /\ \E m, n \in 1..Len(processed_data.bigram_data) :
          LET r == processed_data.bigram_data[m]
              q == processed_data.bigram_data[n]
          IN  /\ r.chosen_bigram = fr /\ r.is_probable /\ ~r.is_improbable
              /\ q.chosen_bigram = vr /\ q.is_improbable /\ ~q.is_probable

-----------------------------------------------------------------------------
(* User Reliability Aggregator *)

user_stats == processed_data.user_stats

\* C11: for every user of user_stats, consistent_choices +
\* inconsistent_choices <= total_consistency_choices <= total_choices.
C11_CountersOrdered ==
    Processed =>
        \A i \in 1..Len(user_stats) :
            /\ user_stats[i].consistent_choices
                 + user_stats[i].inconsistent_choices
                   <= user_stats[i].total_consistency_choices
            /\ user_stats[i].total_consistency_choices
                   <= user_stats[i].total_choices

\* a user with inconsistent repeats of one pair and a single judgement of
\* another pair
C11_Witness ==
    /\ Processed
    /\ \E i \in 1..Len(user_stats) :
          /\ user_stats[i].inconsistent_choices > 0
          /\ user_stats[i].total_consistency_choices
                 < user_stats[i].total_choices

\* the tables the counters of user_stats count, by counter
CategoryRows(counter) ==
    CASE counter = "consistent_choices"   -> processed_data.consistent_choices
      [] counter = "inconsistent_choices" -> processed_data.inconsistent_choices
      [] counter = "probable_choices"     -> processed_data.probable_choices
      [] counter = "improbable_choices"   -> processed_data.improbable_choices
      [] counter = "total_consistency_choices" ->
             SelectSeq(processed_data.bigram_data,
                       LAMBDA r : r.group_size > 1)

Counters ==
    {"consistent_choices", "inconsistent_choices", "probable_choices",
     "improbable_choices", "total_consistency_choices"}

\* C12: user_stats has exactly one record per distinct user_id of the input
\* observations, and every counter of every record is an integer, 0 when
\* the user has no row in the category.
C12_OneRecordPerUser ==
    Processed =>
        /\ {user_stats[i].user_id : i \in 1..Len(user_stats)}
               = Values(data, "user_id")
        /\ \A i, j \in 1..Len(user_stats) :
               user_stats[i].user_id = user_stats[j].user_id => i = j
        /\ \A i \in 1..Len(user_stats) : \A counter \in Counters :
               /\ user_stats[i][counter] \in Nat
               /\ (\A r \in Rows(CategoryRows(counter)) :
                       r.user_id # user_stats[i].user_id)
                   => user_stats[i][counter] = 0

\* two users, one with several observations, one of them with no
\* inconsistent and no improbable choice
C12_Witness ==
    /\ Processed
    /\ Len(user_stats) = 2
    /\ Len(data) > 2
    /\ \E i \in 1..Len(user_stats) :
          /\ user_stats[i].inconsistent_choices = 0
          /\ user_stats[i].improbable_choices = 0
          /\ user_stats[i].consistent_choices > 0

-----------------------------------------------------------------------------
(* The pipeline run twice *)

\* the filter of the second run kept the rows the filter of the first run
\* kept, as it does under the same thresholds
SameFilter == filtered_users_data = first_run.filtered_users_data

\* C13: a second run of the pipeline on the data object the first run has
\* processed, with the same reference pairs, gives the classified
\* observations and user_stats of the first run, and under the same filter
\* its UserScore and PairVerdict tables.
C13_SecondRunIdentical ==
    first_run.completed =>
        /\ Processed => processed_data = first_run.processed_data
        /\ (Scored /\ SameFilter) =>
               scored_bigram_data = first_run.scored_bigram_data
        /\ (Done /\ SameFilter) =>
               bigram_winner_data = first_run.bigram_winner_data

\* a second run has finished on a frame that carries the column the first
\* run added, with two pairs judged
C13_Witness ==
    /\ first_run.completed
    /\ Done
    /\ SameFilter
    /\ \A i \in 1..Len(data) : data[i].std_bigram_pair # <<>>
    /\ Len(bigram_winner_data) = 2
    /\ Len(scored_bigram_data) > 2

-----------------------------------------------------------------------------
(* Failure semantics of the resolvers *)

\* the (user, pair) group of a UserScore row has no non-missing slider value
EmptyUserGroup(r) == Present(GroupOf(r)) = {}

\* the pair group of a verdict has no non-missing user score
EmptyPairGroup(w) == \A j \in ScoresOf(w) : isnan(scored_bigram_data[j].score)

\* C14 as stated: a (user, pair) group with no non-missing slider value has
\* a missing score, whether its rows chose one bigram or both, and a pair
\* group with no non-missing user score has a missing median_score.
C14_EmptyGroupMissing ==
    /\ Scored =>
          \A j \in 1..Len(scored_bigram_data) :
              EmptyUserGroup(scored_bigram_data[j])
                  => isnan(scored_bigram_data[j].score)
    /\ Done =>
          \A k \in 1..Len(bigram_winner_data) :
              EmptyPairGroup(bigram_winner_data[k])
                  => isnan(bigram_winner_data[k].median_score)

-----------------------------------------------------------------------------
(* Columns of the verdict *)

RECURSIVE RepeatTotal(_)
\* the sum of group_size over the UserScore rows at the positions J
RepeatTotal(J) ==
    IF J = {} THEN 0
    ELSE LET j == CHOOSE x \in J : TRUE
         IN  scored_bigram_data[j].group_size + RepeatTotal(J \ {j})

\* C15 as stated: every row of the table returned by choose_bigram_winners
\* has a group_size, the sum of the group_size of the UserScore rows of its
\* pair.
C15_VerdictGroupSize ==
    Done =>
        \A k \in 1..Len(bigram_winner_data) :
            /\ "group_size" \in DOMAIN bigram_winner_data[k]
            /\ bigram_winner_data[k].group_size
                   = RepeatTotal(ScoresOf(bigram_winner_data[k]))

\* C16: the is_consistent flag of a verdict is the conjunction of the
\* is_consistent flags of the UserScore rows of its pair; it is true exactly
\* when every contributing user chose the same bigram in all repeats.
C16_VerdictConsistency ==
    Done =>
        \A k \in 1..Len(bigram_winner_data) :
            LET w == bigram_winner_data[k]
                J == ScoresOf(w)
            IN  /\ w.is_consistent \in {"True", "False"}
                /\ w.is_consistent = "True"
                     <=> \A j \in J : scored_bigram_data[j].is_consistent = "True"
                /\ w.is_consistent = "True"
                     <=> \A j \in J :
                            Cardinality(ChosenIn(GroupOf(scored_bigram_data[j]))) = 1

\* a pair judged by a user who chose both bigrams and by a user who chose
\* one: the verdict is not consistent
C16_Witness ==
    /\ Done
    /\ \E k \in 1..Len(bigram_winner_data) :
          LET w == bigram_winner_data[k]
              J == ScoresOf(w)
          IN  /\ w.is_consistent = "False"
              /\ \E i, j \in J :
                    /\ scored_bigram_data[i].is_consistent = "True"
                    /\ scored_bigram_data[j].is_consistent = "False"

-----------------------------------------------------------------------------
(* Reference data *)

\* the file can be read and its header lacks good_choice or bad_choice
Malformed(file) ==
    /\ file.exists
    /\ ~({"good_choice", "bad_choice"} \subseteq file.columns)

\* C17 as stated: loading from a file without the columns good_choice and
\* bad_choice is aborted with an error that reaches the caller, so a
\* malformed file never leaves the caller with a list as an empty file does.
C17_MalformedSurfaced ==
    (pc # "load_easy_choice_pairs" /\ Malformed(easy_choice_pairs_file))
        => pc = "load_raised"

-----------------------------------------------------------------------------
(* Flags carried from the classified observations to the scores *)

\* C18 as stated: the is_consistent flag of a UserScore row is the
\* is_consistent value process_data gave the observations of its
\* (user, pair) group, null for a group of one observation included.
C18_SameConsistency ==
    Scored =>
        \A j \in 1..Len(scored_bigram_data) :
            \A i \in GroupOf(scored_bigram_data[j]) :
                scored_bigram_data[j].is_consistent
                    = scoring_input[i].is_consistent

\* the two probability flags of a row
Flags(row) == <<row.is_probable, row.is_improbable>>

\* C19 as stated: the observations of a (user, pair) group all have the
\* same probability flags, the UserScore rows of a pair all have the same
\* flags, and so the flags of a UserScore row and of a verdict are those of
\* every row of their group.
C19_FlagsGroupInvariant ==
    /\ Processed =>
          \A a, b \in Rows(processed_data.bigram_data) :
              (a.user_id = b.user_id /\ a.bigram_pair = b.bigram_pair)
                  => Flags(a) = Flags(b)
    /\ Scored =>
          /\ \A a, b \in Rows(scored_bigram_data) :
                 a.bigram_pair = b.bigram_pair => Flags(a) = Flags(b)
          /\ \A j \in 1..Len(scored_bigram_data) :
                 \A i \in GroupOf(scored_bigram_data[j]) :
                     Flags(scored_bigram_data[j]) = Flags(scoring_input[i])
    /\ Done =>
          \A k \in 1..Len(bigram_winner_data) :
              \A j \in ScoresOf(bigram_winner_data[k]) :
                  Flags(bigram_winner_data[k]) = Flags(scored_bigram_data[j])

-----------------------------------------------------------------------------
(* Deviation of a split verdict *)

\* +|score| of a UserScore row whose winner is bigram_a, -|score| otherwise
SignedScore(j) ==
    IF scored_bigram_data[j].chosen_bigram_winner
           = scored_bigram_data[j].bigram_pair[1]
    THEN AbsScore(j)
    ELSE neg(AbsScore(j))

\* C20: when the UserScore rows of a pair declare different winners,
\* mad_score is the median absolute deviation of the list with +|score| for
\* the rows won by bigram_a and -|score| for the rows won by bigram_b,
\* whichever bigram wins the verdict (missing when a score is missing).
C20_SplitMadSigned ==
    Done =>
        \A k \in 1..Len(bigram_winner_data) :
            LET w == bigram_winner_data[k]
                J == ScoresOf(w)
                f == [j \in J |-> SignedScore(j)]
            IN  Cardinality(WinnersIn(J)) = 2 =>
                    IF AllScoresPresent(J)
                    THEN w.mad_score = MAD(f, J)
                    ELSE isnan(w.mad_score)

\* scores 0.2 for "he" and 0.3, 0.5 for "th": "th" (bigram_b) wins and the
\* deviation of 0.2, -0.3, -0.5 is 0.2, where that of the magnitudes is 0.1
C20_Witness ==
    /\ Done
    /\ \E k \in 1..Len(bigram_winner_data) :
          LET w == bigram_winner_data[k]
              J == ScoresOf(w)
          IN  /\ Cardinality(J) = 3
              /\ \E j \in J :
                    /\ scored_bigram_data[j].chosen_bigram_winner = he
                    /\ scored_bigram_data[j].score = Ratio(1, 5)
              /\ {scored_bigram_data[j].score : j \in J}
                     = {Ratio(1, 5), Ratio(3, 10), Ratio(1, 2)}
              /\ w.winner_bigram = th
              /\ w.mad_score = Ratio(1, 5)

-----------------------------------------------------------------------------
(* Typing times and correctness of a verdict *)

\* positions of the UserScore rows of the pair of a verdict whose winner is
\* the winner of the verdict
WinnerRows(w) ==
    {j \in ScoresOf(w) :
        scored_bigram_data[j].chosen_bigram_winner = w.winner_bigram}

\* the median of a column over the UserScore rows at the positions J, missing
\* when one of the values is
ColumnMedian(c, J) ==
    LET f == [j \in J |-> scored_bigram_data[j][c]]
    IN  IF \E j \in J : isnan(f[j]) THEN NaN ELSE Median(f, J)

ColumnTotal(c, J) == Total([j \in J |-> scored_bigram_data[j][c]], J)

\* C21: the time medians and correctness totals of a verdict are the median
\* of the per-user medians and the sum of the per-user sums over the
\* UserScore rows whose winner is the verdict's winner; the rows of the other
\* users contribute nothing.
C21_WinnerSideOnly ==
    Done =>
        \A k \in 1..Len(bigram_winner_data) :
            LET w == bigram_winner_data[k]
                Jw == WinnerRows(w)
            IN  /\ Jw # {}
                /\ w.chosen_bigram_time_median
                       = ColumnMedian("chosen_bigram_time_median", Jw)
                /\ w.unchosen_bigram_time_median
                       = ColumnMedian("unchosen_bigram_time_median", Jw)
                /\ w.chosen_bigram_correct_total
                       = ColumnTotal("chosen_bigram_correct_total", Jw)
                /\ w.unchosen_bigram_correct_total
                       = ColumnTotal("unchosen_bigram_correct_total", Jw)

\* two users won by "th" with fast correct trials and one user won by "he"
\* with a slow mistyped trial: the verdict for "th" reports 100, 200, 2, 2
C21_Witness ==
    /\ Done
    /\ \E k \in 1..Len(bigram_winner_data) :
          LET w == bigram_winner_data[k]
              J == ScoresOf(w)
              Jw == WinnerRows(w)
          IN  /\ w.winner_bigram = th
              /\ Cardinality(Jw) = 2
              /\ \E j \in J \ Jw :
                    /\ scored_bigram_data[j].chosen_bigram_time_median = Float(300)
                    /\ scored_bigram_data[j].chosen_bigram_correct_total = Float(0)
              /\ w.chosen_bigram_time_median = Float(100)
              /\ w.unchosen_bigram_time_median = Float(200)
              /\ w.chosen_bigram_correct_total = Float(2)
              /\ w.unchosen_bigram_correct_total = Float(2)

\* C22 as stated: determine_winner skips the UserScore rows with a missing
\* score or a missing time median, so a pair with a non-missing user score
\* has a non-missing median_score and mad_score, and a winning side with a
\* non-missing time median has a non-missing time median.
C22_MissingSkipped ==
    Done =>
        \A k \in 1..Len(bigram_winner_data) :
            LET w == bigram_winner_data[k]
                J == ScoresOf(w)
                Jw == WinnerRows(w)
            IN  /\ (\E j \in J : ~isnan(scored_bigram_data[j].score))
                       => /\ ~isnan(w.median_score)
                          /\ ~isnan(w.mad_score)
                /\ (\E j \in Jw :
                        ~isnan(scored_bigram_data[j].chosen_bigram_time_median))
                       => ~isnan(w.chosen_bigram_time_median)

-----------------------------------------------------------------------------
(* Effects of the stages on their arguments *)

\* C23 as stated: no stage changes the collection it is given: process_data
\* leaves the raw observations as they were, filter_users the processed
\* tables, score_user_choices_by_slider_values the filtered tables and
\* choose_bigram_winners the UserScore table.
C23_InputsUnchanged ==
    [][/\ pc = "process_data" => data' = data
       /\ pc = "filter_users" => processed_data' = processed_data
       /\ pc = "score_user_choices" =>
              filtered_users_data' = filtered_users_data
       /\ pc = "choose_bigram_winners" =>
              scored_bigram_data' = scored_bigram_data]_vars

-----------------------------------------------------------------------------
(* Order and cardinality of the output tables *)

\* the key (user_id, pair) of a row
UserPairKey(row) == <<row.user_id, row.bigram_pair>>

\* (user_id, pair) keys in ascending order: by user_id, then by the first
\* bigram of the pair, then by the second
KeyBefore(k, l) ==
    \/ StrLess(k[1], l[1])
    \/ /\ k[1] = l[1]
       /\ \/ StrLess(k[2][1], l[2][1])
          \/ k[2][1] = l[2][1] /\ StrLess(k[2][2], l[2][2])

\* C24: the UserScore table has one row per (user_id, pair) of the filtered
\* observations, in strictly ascending (user_id, pair) order, and the
\* verdict table one row per pair of the UserScore table, in strictly
\* ascending pair order, whatever the order of the input rows.
C24_OutputOrder ==
    /\ Scored =>
          /\ \A j \in 1..(Len(scored_bigram_data) - 1) :
                 KeyBefore(UserPairKey(scored_bigram_data[j]),
                           UserPairKey(scored_bigram_data[j + 1]))
          /\ {UserPairKey(scored_bigram_data[j]) :
                  j \in 1..Len(scored_bigram_data)}
                 = {UserPairKey(scoring_input[i]) : i \in 1..Len(scoring_input)}
    /\ Done =>
          /\ \A k \in 1..(Len(bigram_winner_data) - 1) :
                 KeyBefore(<<<<>>, bigram_winner_data[k].bigram_pair>>,
                           <<<<>>, bigram_winner_data[k + 1].bigram_pair>>)
          /\ Values(bigram_winner_data, "bigram_pair")
                 = Values(scored_bigram_data, "bigram_pair")

\* input rows in the order (u2, fr/vr), (u1, th/he), (u1, fr/vr): three
\* UserScore rows starting with (u1, fr/vr), two verdicts starting with fr/vr
C24_Witness ==
    /\ Done
    /\ Len(data) = 3
    /\ data[1].user_id = UserId(2) /\ Bigrams(data[1]) = {fr, vr}
    /\ data[2].user_id = UserId(1) /\ Bigrams(data[2]) = {th, he}
    /\ data[3].user_id = UserId(1) /\ Bigrams(data[3]) = {fr, vr}
    /\ Len(scored_bigram_data) = 3
    /\ UserPairKey(scored_bigram_data[1]) = <<UserId(1), <<fr, vr>>>>
    /\ UserPairKey(scored_bigram_data[3]) = <<UserId(2), <<fr, vr>>>>
    /\ Len(bigram_winner_data) = 2
    /\ bigram_winner_data[1].bigram_pair = <<fr, vr>>

-----------------------------------------------------------------------------
(* Trial classification *)

\* the reference pairs (plausible, implausible) given to process_data
ReferencePairs == {easy_choice_pairs[i] : i \in 1..Len(easy_choice_pairs)}

\* the classified rows of an observation: same user, same trial, same choice
ClassifiedAs(obs) ==
    {r \in Rows(processed_data.bigram_data) :
        /\ r.user_id = obs.user_id
        /\ r.trialId = obs.trialId
        /\ r.chosen_bigram = obs.chosenBigram
        /\ r.unchosen_bigram = obs.unchosenBigram}

\* C25: an observation is probable iff (chosen, unchosen) is a reference
\* pair and improbable iff (unchosen, chosen) is one; it has both flags false
\* when its bigrams match no reference pair, as every observation has with
\* an empty reference set.
C25_ExactMatch ==
    Processed =>
        \A i \in 1..Len(data) :
            /\ ClassifiedAs(data[i]) # {}
            /\ \A r \in ClassifiedAs(data[i]) :
                  /\ r.is_probable
                       <=> <<data[i].chosenBigram, data[i].unchosenBigram>>
                               \in ReferencePairs
                  /\ r.is_improbable
                       <=> <<data[i].unchosenBigram, data[i].chosenBigram>>
                               \in ReferencePairs
                  /\ (\A p \in ReferencePairs : {p[1], p[2]} # Bigrams(data[i]))
                         => ~r.is_probable /\ ~r.is_improbable
                  /\ ReferencePairs = {} => ~r.is_probable /\ ~r.is_improbable

\* with the single reference pair (fr, vr): one observation choosing fr over
\* vr, one choosing vr over fr and one of the pair th/he
C25_Witness ==
    /\ Processed
    /\ ReferencePairs = {<<fr, vr>>}
    /\ \E a, b, c \in Rows(processed_data.bigram_data) :
          /\ a.chosen_bigram = fr /\ a.is_probable /\ ~a.is_improbable
          /\ b.chosen_bigram = vr /\ ~b.is_probable /\ b.is_improbable
          /\ c.bigram_pair = <<he, th>> /\ ~c.is_probable /\ ~c.is_improbable

-----------------------------------------------------------------------------
(* User filter *)

Filtered == pc \in {"score_user_choices", "choose_bigram_winners", "done",
                    "raised"}

\* an integer count is at most a threshold (a whole number or infinity)
AtMost(count, threshold) == threshold = Inf \/ count * threshold[2] <= threshold[1]

\* the users whose improbable and inconsistent counts are within thresholds
KeptUsers(improbable_threshold, inconsistent_threshold) ==
    {u \in Values(user_stats, "user_id") :
        \A i \in 1..Len(user_stats) :
            user_stats[i].user_id = u =>
                /\ AtMost(user_stats[i].improbable_choices, improbable_threshold)
                /\ AtMost(user_stats[i].inconsistent_choices,
                          inconsistent_threshold)}

\* the rows of a table whose user is in a set, in the order of the table
RowsOfUsers(df, users) == SelectSeq(df, LAMBDA r : r.user_id \in users)

\* C26: filter_users keeps the users with improbable_choices <=
\* improbable_threshold and inconsistent_choices <= inconsistent_threshold,
\* for the thresholds it was called with; every returned table holds exactly
\* the rows of the kept users, and the UserScore and verdict rows come from
\* kept users only.
C26_FilterBeforeAggregation ==
    Filtered =>
        LET kept == KeptUsers(thresholds.improbable_threshold,
                              thresholds.inconsistent_threshold)
        IN  /\ \A key \in DOMAIN processed_data :
                   filtered_users_data[key]
                       = RowsOfUsers(processed_data[key], kept)
            /\ Scored =>
                   /\ Values(scored_bigram_data, "user_id") \subseteq kept
                   /\ \A j \in 1..Len(scored_bigram_data) :
                          scored_bigram_data[j].group_size
                              = Cardinality(
                                  {i \in 1..Len(processed_data.bigram_data) :
                                      /\ processed_data.bigram_data[i].user_id \in kept
                                      /\ UserPairKey(processed_data.bigram_data[i])
                                           = UserPairKey(scored_bigram_data[j])})
            /\ Done =>
                   Values(bigram_winner_data, "bigram_pair")
                       = {processed_data.bigram_data[i].bigram_pair :
                            i \in {m \in 1..Len(processed_data.bigram_data) :
                                     processed_data.bigram_data[m].user_id \in kept}}

\* called with improbable_threshold = 0 and inconsistent_threshold = inf, as
\* the main block does: two users judged fr/vr, one of them chose the
\* improbable vr and is excluded, the verdict rests on the other user alone
C26_Witness ==
    /\ Done
    /\ thresholds = [improbable_threshold |-> Float(0),
                     inconsistent_threshold |-> Inf]
    /\ Len(user_stats) = 2
    /\ \E i \in 1..Len(user_stats) : user_stats[i].improbable_choices > 0
    /\ Len(filtered_users_data.user_stats) = 1
    /\ filtered_users_data.user_stats[1].improbable_choices = 0
    /\ Len(processed_data.bigram_data) > Len(filtered_users_data.bigram_data)
    /\ Len(scored_bigram_data) = 1
    /\ scored_bigram_data[1].user_id = filtered_users_data.user_stats[1].user_id

-----------------------------------------------------------------------------
(* Relations between runs on related inputs *)

\* a table with the slider value of the rows at the positions S negated
NegatedOn(df, S) ==
    [i \in 1..Len(df) |->
        IF i \in S THEN [df[i] EXCEPT !.sliderValue = neg(@)] ELSE df[i]]

\* a table with the sign of every slider value dropped
Unsigned(df) == [i \in 1..Len(df) |-> [df[i] EXCEPT !.sliderValue = abs(@)]]

\* the UserScore table of the filtered observations with the slider values
\* at the positions S negated
ScoredNegatedOn(S) ==
    score_user_choices_by_slider_values(
        [filtered_users_data EXCEPT !.bigram_data = NegatedOn(@, S)])

\* C27: negating the slider value of any subset of the observations changes
\* nothing but that sign in the classified tables and nothing at all in the
\* UserScore table, so that the winner, loser and score of every UserScore
\* row and the winner, loser, median_score and mad_score of every verdict,
\* which is computed from the UserScore table alone, stay as they are.
C27_SignInvariant ==
    /\ pc = "filter_users" =>
          \A S \in SUBSET (1..Len(data)) :
              LET negated == process_data(NegatedOn(data, S), easy_choice_pairs)
              IN  /\ negated.user_stats = processed_data.user_stats
                  /\ \A key \in DOMAIN negated \ {"user_stats"} :
                         Unsigned(negated[key]) = Unsigned(processed_data[key])
    /\ pc = "choose_bigram_winners" =>
          \A S \in SUBSET (1..Len(scoring_input)) :
              ScoredNegatedOn(S) = scored_bigram_data

\* a user who chose "th" with the slider at -60 and "he" with the slider at
\* 30: score |60 - 30| / 2 / 100, winner "th", with either sign changed too
C27_Witness ==
    /\ pc = "choose_bigram_winners"
    /\ Len(data) = 2
    /\ data[1].chosenBigram = th /\ data[1].sliderValue = Float(-60)
    /\ data[2].chosenBigram = he /\ data[2].sliderValue = Float(30)
    /\ Len(scored_bigram_data) = 1
    /\ scored_bigram_data[1].chosen_bigram_winner = th
    /\ scored_bigram_data[1].score = Ratio(3, 20)
    /\ ScoredNegatedOn({1}) = scored_bigram_data
    /\ ScoredNegatedOn({2}) = scored_bigram_data

\* the orders of n rows: the permutations of 1..n
RowOrders(n) ==
    {p \in [1..n -> 1..n] : \A i, j \in 1..n : p[i] = p[j] => i = j}

\* the rows of a table in the order p
Permuted(df, p) == [i \in 1..Len(df) |-> df[p[i]]]

\* no user has two observations with the same trial id
UniqueTrials ==
    \A i, j \in 1..Len(data) :
        (data[i].user_id = data[j].user_id /\ data[i].trialId = data[j].trialId)
            => i = j

\* C28: with trial ids unique per user, process_data gives the same tables
\* for every order of the input rows, so that the winner, loser, score and
\* group_size of every UserScore row and the winner, loser, median_score and
\* mad_score of every verdict, which are computed from these tables, do not
\* depend on that order.
C28_PermutationInvariant ==
    (pc = "filter_users" /\ UniqueTrials) =>
        \A p \in RowOrders(Len(data)) :
            process_data(with_std_bigram_pair(Permuted(data, p)),
                         easy_choice_pairs) = processed_data

\* three observations given in the order (u2, t1), (u1, t2), (u1, t1), the
\* two of u1 on the same pair with different choices
C28_Witness ==
    /\ pc = "filter_users"
    /\ UniqueTrials
    /\ Len(data) = 3
    /\ \E p \in RowOrders(3) :
          LET given == Permuted(data, p)
          IN  /\ given[1].user_id = UserId(2)
              /\ given[2].user_id = UserId(1) /\ given[3].user_id = UserId(1)
              /\ StrLess(given[3].trialId, given[2].trialId)
              /\ given[2].chosenBigram = given[3].unchosenBigram
              /\ process_data(with_std_bigram_pair(given), easy_choice_pairs)
                     = processed_data
    /\ processed_data.bigram_data[1].user_id = UserId(1)
    /\ processed_data.bigram_data[1].group_size = 2

-----------------------------------------------------------------------------
(* Range of a verdict's score *)

\* C29: a verdict computed from UserScore rows whose scores all lie in
\* [0, 1] has its median_score in [0, 1] and a mad_score that is not
\* negative, whether the rows declare one winner or two.
C29_VerdictRange ==
    Done =>
        \A k \in 1..Len(bigram_winner_data) :
            LET w == bigram_winner_data[k]
                J == ScoresOf(w)
            IN  (\A j \in J : InUnit(scored_bigram_data[j].score)) =>
                    /\ InUnit(w.median_score)
                    /\ ge(w.mad_score, Float(0))

\* a pair on which two users declare "he" and one declares "th", the sum of
\* "he" being the larger
C29_Witness ==
    /\ Done
    /\ \E k \in 1..Len(bigram_winner_data) :
          LET w == bigram_winner_data[k]
              J == ScoresOf(w)
          IN  /\ Cardinality(J) = 3
              /\ \A j \in J : InUnit(scored_bigram_data[j].score)
              /\ WinnersIn(J) = {th, he}
              /\ lt(WinnerSum(J, th), WinnerSum(J, he))
              /\ w.winner_bigram = he
              /\ lt(Float(0), w.median_score)
              /\ lt(w.median_score, Float(1))
              /\ lt(Float(0), w.mad_score)

-----------------------------------------------------------------------------
(* Bookkeeping of the groups *)

\* positions of the input observations of a user on the two bigrams of a
\* classified row
InputGroup(r) ==
    {j \in 1..Len(data) :
        /\ data[j].user_id = r.user_id
        /\ {data[j].chosenBigram, data[j].unchosenBigram}
               = {r.bigram1, r.bigram2}}

\* C30: in the output of process_data, the group_size of every classified row
\* is the number of input observations of the same user on the same pair, the
\* rows of one group carry the same is_consistent, there are as many
\* classified rows as input observations, and for every user
\* consistent_choices + inconsistent_choices = total_consistency_choices.
C30_GroupBookkeeping ==
    Processed =>
        LET bigram_data == processed_data.bigram_data
        IN  /\ \A i \in 1..Len(bigram_data) :
                   bigram_data[i].group_size
                       = Cardinality(InputGroup(bigram_data[i]))
            /\ \A i, j \in 1..Len(bigram_data) :
                   (/\ bigram_data[i].user_id = bigram_data[j].user_id
                    /\ bigram_data[i].bigram_pair = bigram_data[j].bigram_pair)
                       => bigram_data[i].is_consistent
                              = bigram_data[j].is_consistent
            /\ Len(bigram_data) = Len(data)
            /\ \A i \in 1..Len(user_stats) :
                   user_stats[i].consistent_choices
                       + user_stats[i].inconsistent_choices
                           = user_stats[i].total_consistency_choices

\* a user judges one pair three times, twice one way and once the other
C30_Witness ==
    /\ Processed
    /\ Len(data) = 3
    /\ Len(processed_data.bigram_data) = 3
    /\ \E i \in 1..Len(user_stats) :
          /\ user_stats[i].consistent_choices = 0
          /\ user_stats[i].inconsistent_choices = 3
          /\ user_stats[i].total_consistency_choices = 3
    /\ \E m \in 1..Len(processed_data.bigram_data) :
          LET r == processed_data.bigram_data[m]
          IN  /\ r.group_size = 3
              /\ Cardinality(InputGroup(r)) = 3
              /\ r.is_consistent = "False"
              /\ Cardinality({j \in InputGroup(r) :
                                 data[j].chosenBigram = r.bigram1}) = 2

=============================================================================
